---- MODULE Spec2Model ----
(***************************************************************************)
(* Forge static site generator: the dev server's snapshot (pages,          *)
(* collections) shared between the HTTP thread and the file watcher        *)
(* thread, the build version, the live-reload WebSocket manager and the    *)
(* minifier fallback of SiteBuilder.                                       *)
(***************************************************************************)
EXTENDS Integers, Sequences, FiniteSets, TLC

(* ---------------------------------------------------------------- bounds *)
\* watcher events the environment delivers in one run
MaxEvents == 2
\* milliseconds the wall clock advances in one run
MaxClock == 1
\* live-reload connections a browser opens in one run
MaxClients == 1

(* ------------------------------------------------------- the content tree *)
\* content files, as path segments below the content root plus extension
F_index == [type |-> "pages", rest |-> <<"index">>, ext |-> ".md"]
F_post == [type |-> "blog", rest |-> <<"post1">>, ext |-> ".md"]
Files == {F_index, F_post}

\* a larger tree for the build command
F_about == [type |-> "pages", rest |-> <<"about">>, ext |-> ".md"]
F_blogindex == [type |-> "blog", rest |-> <<"index">>, ext |-> ".md"]
F_old == [type |-> "blog", rest |-> <<"2023", "old">>, ext |-> ".md"]
F_doc_a == [type |-> "docs", rest |-> <<"a">>, ext |-> ".md"]
F_doc_b == [type |-> "docs", rest |-> <<"b">>, ext |-> ".md"]
TreeFiles == Files \cup {F_about, F_blogindex, F_old, F_doc_a, F_doc_b}

\* what a read of a file does: "ok" reads and parses, "bad" exists but
\* read_file or FrontMatter::parse raises, "absent" is not on disk
FileStates == {"ok", "bad", "absent"}

NoUrl == <<"?">>

\* rest_path.stem(): the stem of the last component of the rest of the path
Stem(rest) == IF rest = <<>> THEN "" ELSE rest[Len(rest)]

\* url_path of discover_content, as the sequence of its segments
UrlOf(f) ==
  IF f.type = "pages"
  THEN IF Stem(f.rest) = "index" THEN <<>> ELSE <<Stem(f.rest)>>
  ELSE IF f.rest # <<>> /\ Stem(f.rest) # "index"
       THEN <<f.type, Stem(f.rest)>>
       ELSE <<f.type>>

\* request paths the browser asks for
RequestUrls == {UrlOf(f) : f \in Files} \cup {<<"missing">>}

(* -------------------------------------------------------- watcher events *)
\* an event as handleFileAction sees it: the watched root the path lies
\* under, the first character of the file name ("" for an empty name), the
\* extension and the action
EvContent == [root |-> "content", first |-> "p", ext |-> ".md", action |-> "Modified"]
EvTemplate == [root |-> "templates", first |-> "b", ext |-> ".html", action |-> "Modified"]
EvCss == [root |-> "content", first |-> "s", ext |-> ".css", action |-> "Add"]
EvDelete == [root |-> "content", first |-> "p", ext |-> ".md", action |-> "Delete"]
Events == {EvContent, EvTemplate, EvCss, EvDelete}

watched_extensions == {".md", ".yaml", ".yml", ".html", ".css", ".js"}

\* the folders start_dev_server puts a watch on
WatchedRoots == {"content", "templates", "static"}

\* every shape of event the watcher can deliver: an empty file name has no
\* extension; "p" stands for any first character other than '.' and '~'
AllEvents ==
  {ev \in [root : WatchedRoots, first : {"", ".", "~", "p"},
           ext : watched_extensions \cup {".txt", ""},
           action : {"Add", "Delete", "Modified", "Moved"}] :
     ev.first = "" => ev.ext = ""}

\* a filter that lets every action through
Accepted_AnyAction(ev) ==
  /\ ~(ev.first = "" \/ ev.first = "." \/ ev.first = "~")
  /\ ev.ext \in watched_extensions

\* the three early returns of handleFileAction
Accepted(ev) ==
  /\ ~(ev.first = "" \/ ev.first = "." \/ ev.first = "~")
  /\ ev.ext \in watched_extensions
  /\ ev.action \in {"Modified", "Add"}

\* a classification that tests the content root before the extension
ChangeType_ContentFirst(ev) ==
  IF ev.root = "templates" THEN "template"
  ELSE IF ev.root = "content" THEN "content"
  ELSE IF ev.ext = ".css" THEN "css"
  ELSE IF ev.ext = ".js" THEN "js"
  ELSE IF ev.ext \in {".yaml", ".yml"} THEN "config"
  ELSE "reload"

\* change_type of handleFileAction
ChangeType(ev) ==
  IF ev.root = "templates" THEN "template"
  ELSE IF ev.ext = ".css" THEN "css"
  ELSE IF ev.ext = ".js" THEN "js"
  ELSE IF ev.ext \in {".yaml", ".yml"} THEN "config"
  ELSE IF ev.root = "content" THEN "content"
  ELSE "reload"

NoEvent == [root |-> "", first |-> "", ext |-> "", action |-> ""]
NoMsg == [type |-> "", version |-> 0 - 1]

VARIABLES
  disk,        \* content file -> FileStates
  baseTpl,     \* templates/base.html on disk: FileStates
  now,         \* system_clock in milliseconds
  version,     \* BuildInfo::BUILD_VERSION_
  pages,       \* SiteBuilder::pages: url -> page record
  collections, \* SiteBuilder::collections: content type -> Seq of page pointers
  gen,         \* allocation epoch of the page records (bumped by pages.clear())
  writer,      \* pages_mutex_ held in exclusive mode
  readers,     \* number of shared holders of pages_mutex_
  listing,     \* the files the last directory walk enumerated
  events,      \* events the watcher thread has still to deliver
  delivered,   \* events produced so far
  wpc,         \* the rebuilding thread: position in handleFileAction / discover_content
  wev,         \* the event being handled
  wscan,       \* files the running walk has still to visit
  wprev,       \* build version when the current event was taken
  wdisc,       \* discover_content calls made for the current event
  wbc,         \* broadcast_reload calls made for the current event
  wmsg,        \* the message of the last broadcast_reload of the current event
  failedBefore, \* a rebuild of an earlier event ended in the catch block
  hpc,         \* HTTP thread: position in the catch-all handler
  hreq,        \* request path
  hptr,        \* the iterator pages.find returned: pointer to a page record
  hstatus,     \* response status
  hbody,       \* response body
  base_template, \* SiteBuilder::base_template: the text last read, "" for none
  sessions_,   \* WebSocketManager::sessions_
  running_,    \* WebSocketManager::running_
  shutting_down_, \* WebSocketManager::shutting_down_
  iocMade,     \* ioc_ points to an io_context
  iocStopped,  \* io_context::stop() was called
  acceptArmed, \* an async_accept of do_accept is outstanding
  conn,        \* browser connection -> its state
  tpc,         \* WebSocket server thread: position
  tcur,        \* the connection the accept handler is working on
  mpc,         \* main thread: position in start() / stop()
  bcalls,      \* broadcast_reload calls made so far
  posted,      \* messages the last broadcast_reload posted to sessions
  postedAfterStop, \* messages posted by calls issued after stop() returned
  jkind,       \* minifier call: "css", "js" or "html"
  jin,         \* minifier call: the input text
  jpc,         \* minifier call: position
  jenabled,    \* minification_enabled && js_minifier
  jjobs,       \* pending jobs of the scripting engine until the promise settles
  ji,          \* loop counter of the pending-job pump
  jres,        \* what the engine hands back
  jopt,        \* the std::optional the JSMinifier method returns
  jout,        \* what the SiteBuilder method returns
  tplFile,     \* content template files on disk: content type -> TplStates
  rcalls,      \* the render_page calls made so far: page url and result
  value,       \* serialize_page: a scalar front-matter value
  page_json,   \* serialize_page: what page_json[key] is set to
  bpc,         \* forge build: position of the main thread
  btodo,       \* build_all: urls the for loop has still to visit
  success_count, \* build_all: success_count
  error_count, \* build_all: error_count
  bresult,     \* build_all: url -> the outcomes of the build_page calls for it
  tmpl,        \* TemplateEngine::render: template_content
  data,        \* TemplateEngine::render: the caller's context
  working_data, \* TemplateEngine::render: working_data
  attempt,     \* TemplateEngine::render: render attempts made
  tres,        \* TemplateEngine::render: running, or how the call ended
  js,          \* HtmlMinifier::minify_js: the argument
  result,      \* HtmlMinifier::minify_js: the returned text, NoText before
  html,        \* HtmlMinifier::minify: the argument
  opts,        \* HtmlMinifier::minify: the options
  mstep,        \* HtmlMinifier::minify: position in the function
  mpos,        \* HtmlMinifier::minify: i, counted from 1
  output,      \* HtmlMinifier::minify: output
  tag_stack,   \* HtmlMinifier::minify: tag_stack
  pending_space, \* HtmlMinifier::minify: pending_space
  current_tag, \* HtmlMinifier::minify: current_tag
  is_closing,  \* HtmlMinifier::minify: is_closing
  in_attr_value, \* HtmlMinifier::minify: in_attr_value
  quote_char,  \* HtmlMinifier::minify: quote_char
  last_was_space, \* HtmlMinifier::minify: last_was_space
  is_dev_mode, \* SiteBuilder::is_dev_mode
  ipage,       \* render_page: the page's needs_template and html_content
  base_text,   \* SiteBuilder::base_template as text, empty without base.html
  rendered,    \* render_page: the returned text, NoText before
  has_error_page, \* SiteBuilder::has_error_page
  handlers,    \* WebSocketSession: messages of send() lambdas posted, not yet run
  queue_,      \* WebSocketSession::queue_
  inflight,    \* WebSocketSession: messages with an async_write outstanding
  written,     \* WebSocketSession: messages whose write completed, in order
  write_failed, \* WebSocketSession: messages whose write reported an error
  nsend,       \* WebSocketSession: send() calls made
  raw_content, \* FrontMatter::parse: the document handed to parse
  parse_result \* FrontMatter::parse: what the call produced

devVars == <<disk, baseTpl, now, version, pages, collections, gen, writer,
             readers, listing, events, delivered, wpc, wev, wscan, wprev,
             wdisc, wbc, wmsg, failedBefore, hpc, hreq, hptr,
             hstatus, hbody,
             base_template, sessions_>>

wsRest == <<running_, shutting_down_, iocMade, iocStopped, acceptArmed, conn,
            tpc, tcur, mpc, bcalls, posted, postedAfterStop>>

minVars == <<jkind, jin, jpc, jenabled, jjobs, ji, jres, jopt, jout>>

renderVars == <<tplFile, rcalls>>
serVars == <<value, page_json>>
buildVars == <<bpc, btodo, success_count, error_count, bresult>>
retryVars == <<tmpl, data, working_data, attempt, tres>>
jsVars == <<js, result>>
htmlVars == <<html, opts, mstep, mpos, output, tag_stack, pending_space,
              current_tag, is_closing, in_attr_value, quote_char, last_was_space>>
injectVars == <<is_dev_mode, ipage, base_text, rendered>>
sessVars == <<handlers, queue_, inflight, written, write_failed, nsend>>
frontVars == <<raw_content, parse_result>>
lateVars == <<jsVars, htmlVars, injectVars, has_error_page, sessVars, frontVars>>
auxVars == <<renderVars, serVars, buildVars, retryVars, lateVars>>

vars == <<devVars, wsRest, minVars, auxVars>>

(* ------------------------------------------------------------ the snapshot *)
\* strings of front matter values as sequences of character codes
RECURSIVE StrLess(_, _)
\* std::string operator< : lexicographic, a proper prefix is smaller
StrLess(a, b) ==
  IF b = <<>> THEN FALSE
  ELSE IF a = <<>> THEN TRUE
  ELSE IF a[1] # b[1] THEN a[1] < b[1]
  ELSE StrLess(Tail(a), Tail(b))

\* the front matter a file parses to (the date field, as character codes)
FrontMatterOf(f) ==
  IF f.type = "pages" \/ f = F_blogindex THEN <<>>
  ELSE IF f = F_old THEN ("date" :> <<2, 0, 2, 3>>)
  ELSE IF f = F_doc_a THEN ("order" :> <<2>>)
  ELSE IF f = F_doc_b THEN ("order" :> <<1, 0>>)
  ELSE ("date" :> <<2, 0, 2, 4>>)

\* FrontMatter::get(key, default_val)
FmGet(fm, key, default_val) == IF key \in DOMAIN fm THEN fm[key] ELSE default_val

\* config.collections of forge.yaml: the configured collections
ConfigCollections ==
  "blog" :> [sort_by |-> "date", sort_order |-> "desc"] @@
  "docs" :> [sort_by |-> "order", sort_order |-> "asc"]

\* the PageInfo discover_content builds for a file, allocated in epoch g
PageOf(f, g) ==
  [url |-> UrlOf(f), src |-> f, ctype |-> f.type,
   fm |-> FrontMatterOf(f), gen |-> g]

NoPtr == [url |-> NoUrl, gen |-> 0 - 1]
PtrTo(p) == [url |-> p.url, gen |-> p.gen]

\* a pointer refers to a page record that is still in the map
Live(ptr, pg) == ptr.url \in DOMAIN pg /\ pg[ptr.url].gen = ptr.gen

\* pages[url_path] = page
Insert(pg, p) ==
  [u \in DOMAIN pg \cup {p.url} |-> IF u = p.url THEN p ELSE pg[u]]

Perms(S) ==
  {s \in [1..Cardinality(S) -> S] : \A i, j \in 1..Cardinality(S) : i # j => s[i] # s[j]}

\* a comparator that ignores sort_order
SortBefore_Ascending(a, b, cfg) ==
  StrLess(FmGet(a.fm, cfg.sort_by, <<>>), FmGet(b.fm, cfg.sort_by, <<>>))

\* the comparator build_collections hands to std::sort
SortBefore(a, b, cfg) ==
  IF cfg.sort_order = "desc"
  THEN StrLess(FmGet(b.fm, cfg.sort_by, <<>>), FmGet(a.fm, cfg.sort_by, <<>>))
  ELSE StrLess(FmGet(a.fm, cfg.sort_by, <<>>), FmGet(b.fm, cfg.sort_by, <<>>))

\* the orders build_collections can leave collection t in: the iteration
\* order of the unordered map, then std::sort when t is configured
CollectionOrders(pg, t) ==
  LET members == {pg[u] : u \in {v \in DOMAIN pg : pg[v].ctype = t}}
  IN {[i \in DOMAIN s |-> PtrTo(s[i])] :
        s \in {q \in Perms(members) :
                 t \in DOMAIN ConfigCollections =>
                   \A i, j \in DOMAIN q :
                     i < j => ~SortBefore(q[j], q[i], ConfigCollections[t])}}

\* a grouping that does not skip the content type "pages"
CollectionNames_All(pg) == {pg[u].ctype : u \in DOMAIN pg}

\* the keys of collections: the content types of the pages, "pages" skipped
CollectionNames(pg) == {pg[u].ctype : u \in DOMAIN pg} \ {"pages"}

\* the results build_collections can produce from the pages map
BuildCollections(pg) ==
  {c \in [CollectionNames(pg) -> UNION {CollectionOrders(pg, t) : t \in CollectionNames(pg)}] :
     \A t \in CollectionNames(pg) : c[t] \in CollectionOrders(pg, t)}

\* the pages map of a walk that visited every file of the set fs
RECURSIVE ScanAll(_, _, _)
ScanAll(fs, g, pg) ==
  IF fs = {} THEN pg
  ELSE LET f == CHOOSE x \in fs : TRUE
       IN ScanAll(fs \ {f}, g, Insert(pg, PageOf(f, g)))

Sources(pg) == {pg[u].src : u \in DOMAIN pg}

\* the snapshot is the complete result of one finished walk
SnapshotComplete ==
  /\ Sources(pages) = listing
  /\ collections \in BuildCollections(pages)

(* ------------------------------------------------------------------ Init *)
\* browser connections
Clients == 1..MaxClients

\* the WebSocketManager of a running dev server: start() has returned and
\* the server thread sits in ioc_->run() with an accept outstanding
WsServing ==
  /\ running_ = TRUE
  /\ shutting_down_ = FALSE
  /\ iocMade = TRUE
  /\ iocStopped = FALSE
  /\ acceptArmed = TRUE
  /\ conn = [c \in Clients |-> "none"]
  /\ tpc = "run"
  /\ tcur = 0
  /\ mpc = "serving"
  /\ bcalls = 0
  /\ posted = 0
  /\ postedAfterStop = 0

\* no minifier call is in progress
MinIdle ==
  /\ jkind = "css"
  /\ jin = ""
  /\ jpc = "idle"
  /\ jenabled = FALSE
  /\ jjobs = 0
  /\ ji = 0
  /\ jres = "none"
  /\ jopt = <<>>
  /\ jout = "none"

\* the content types whose template file (templates/{type}.html) existed
\* when the pages were discovered: page.template_path is set for them
TplTypes == {"pages", "blog"}

\* a content template on disk: two texts, removed, or present but unreadable
TplStates == {"t1", "t2", "gone", "locked"}

\* an exception leaves the call
Throw == [ok |-> FALSE]

\* what render_page returns for page record p: the body run through the
\* template engine, wrapped in the content template when template_path is
\* set and the file exists at the time of the call (read_file raises when
\* it cannot be opened), then in base_template with the build version
RenderPage(p, tf, base, ver, colls) ==
  LET wrap == p.ctype \in TplTypes /\ tf[p.ctype] # "gone"
  IN IF wrap /\ tf[p.ctype] = "locked" THEN Throw
     ELSE [ok |-> TRUE, body |-> p.src, colls |-> colls,
           tpl |-> IF wrap THEN tf[p.ctype] ELSE "",
           base |-> base,
           version |-> IF base = "" THEN 0 ELSE ver]

\* response bodies: none yet, the inline fallback of the catch-all handler
\* for a url, "Error rendering page: ...", a rendered page, and whatever a
\* render through a dangling reference leaves
\* base_template while reload_base_template assigns it: a std::string in
\* the middle of an assignment, and the new text once it is assigned
Torn == "torn"
Reloaded == "reloaded"

NoBody == [kind |-> "none"]
Inline404(u) == [kind |-> "inline404", url |-> u]
ErrorBody == [kind |-> "error"]
PageBody(out) == [kind |-> "page", out |-> out]
Garbage == [ok |-> TRUE, body |-> "?"]

\* the content templates as they were at discovery
RenderIdle ==
  /\ tplFile = [t \in TplTypes |-> "t1"]
  /\ rcalls = <<>>

NoJson == [kind |-> "none"]

\* no serialize_page call
SerIdle ==
  /\ value = <<>>
  /\ page_json = NoJson

\* no build command
BuildIdle ==
  /\ bpc = "idle"
  /\ btodo = {}
  /\ success_count = 0
  /\ error_count = 0
  /\ bresult = <<>>

\* no TemplateEngine::render call
RetryIdle ==
  /\ tmpl = <<>>
  /\ data = <<>>
  /\ working_data = <<>>
  /\ attempt = 0
  /\ tres = "none"

\* the absent character '\0' and a text that is not there
NUL == ""
\* the grave accent, which a string of the model cannot hold
Backtick == "grave"
NoText == <<"?">>

\* no minify_js call
JsIdle ==
  /\ js = <<>>
  /\ result = NoText

\* no HtmlMinifier::minify call
HtmlIdle ==
  /\ html = <<>>
  /\ opts = [remove_comments |-> TRUE, collapse_whitespace |-> TRUE,
             minify_inline_css |-> TRUE, minify_inline_js |-> TRUE]
  /\ mstep = "idle"
  /\ mpos = 1
  /\ output = <<>>
  /\ tag_stack = <<>>
  /\ pending_space = FALSE
  /\ current_tag = <<>>
  /\ is_closing = FALSE
  /\ in_attr_value = FALSE
  /\ quote_char = NUL
  /\ last_was_space = FALSE

\* no render_page call on a page text
InjectIdle ==
  /\ is_dev_mode = FALSE
  /\ ipage = [needs_template |-> TRUE, html_content |-> <<>>]
  /\ base_text = <<>>
  /\ rendered = NoText

\* the error-page flag is written by discover_content alone and read nowhere
FlagIdle == has_error_page = FALSE

\* a WebSocketSession on which nothing was sent
\* no call of FrontMatter::parse has been made
NotParsed == [outcome |-> "none", front |-> <<>>, body |-> <<>>]

FrontIdle ==
  /\ raw_content = NoText
  /\ parse_result = NotParsed

SessIdle ==
  /\ handlers = <<>>
  /\ queue_ = <<>>
  /\ inflight = <<>>
  /\ written = <<>>
  /\ write_failed = {}
  /\ nsend = 0

LateIdle ==
  /\ JsIdle
  /\ HtmlIdle
  /\ InjectIdle
  /\ FlagIdle
  /\ SessIdle
  /\ FrontIdle

AuxIdle ==
  /\ RenderIdle
  /\ SerIdle
  /\ BuildIdle
  /\ RetryIdle
  /\ LateIdle

\* main(): SiteBuilder constructor, discover_content, generate_build_version,
\* then start_dev_server has started the watcher and the HTTP thread
DevInit ==
  /\ disk = [f \in Files |-> "ok"]
  /\ baseTpl = "ok"
  /\ base_template = "ok"
  /\ now = 1
  /\ version = 1
  /\ gen = 1
  /\ pages = ScanAll(Files, 1, <<>>)
  /\ collections \in BuildCollections(ScanAll(Files, 1, <<>>))
  /\ listing = Files
  /\ writer = FALSE
  /\ readers = 0
  /\ events = <<>>
  /\ delivered = 0
  /\ wpc = "idle"
  /\ wev = NoEvent
  /\ wscan = {}
  /\ wprev = 1
  /\ wdisc = 0
  /\ wbc = 0
  /\ wmsg = NoMsg
  /\ failedBefore = FALSE
  /\ hpc = "idle"
  /\ hreq = NoUrl
  /\ hptr = NoPtr
  /\ hstatus = 0
  /\ hbody = NoBody
  /\ sessions_ = {}
  /\ WsServing
  /\ MinIdle
  /\ AuxIdle

(* ----------------------------------------------------------- environment *)
diskVars == <<disk, baseTpl>>
snapVars == <<pages, collections, gen, writer, readers, listing>>
watchVars == <<wpc, wev, wscan, wprev, wdisc, wbc, wmsg, failedBefore>>
httpVars == <<hpc, hreq, hptr, hstatus, hbody>>

devRest == <<disk, baseTpl, now, version, pages, collections, gen, writer,
             readers, listing, events, delivered, watchVars, httpVars,
             base_template>>

\* the snapshot side of a dev server at rest, for the runs that look at the
\* WebSocketManager or a minifier call alone
DevIdle ==
  /\ disk = [f \in Files |-> "ok"]
  /\ baseTpl = "ok"
  /\ base_template = "ok"
  /\ now = 1
  /\ version = 1
  /\ gen = 1
  /\ pages = ScanAll(Files, 1, <<>>)
  /\ collections = CHOOSE c \in BuildCollections(ScanAll(Files, 1, <<>>)) : TRUE
  /\ listing = Files
  /\ writer = FALSE
  /\ readers = 0
  /\ events = <<>>
  /\ delivered = 0
  /\ wpc = "idle"
  /\ wev = NoEvent
  /\ wscan = {}
  /\ wprev = 1
  /\ wdisc = 0
  /\ wbc = 0
  /\ wmsg = NoMsg
  /\ failedBefore = FALSE
  /\ hpc = "idle"
  /\ hreq = NoUrl
  /\ hptr = NoPtr
  /\ hstatus = 0
  /\ hbody = NoBody

\* the wall clock advances by a millisecond
Tick ==
  /\ now < MaxClock + 1
  /\ now' = now + 1
  /\ UNCHANGED <<wsRest, minVars, auxVars, diskVars, version, snapVars, events, delivered, watchVars,
                 httpVars, base_template, sessions_>>

\* an editor writes, breaks or removes a content file; the watcher queues
\* the event for it
EditFile(f, st) ==
  /\ delivered < MaxEvents
  /\ st # disk[f]
  /\ disk' = [disk EXCEPT ![f] = st]
  /\ events' = Append(events, IF st = "absent" THEN EvDelete ELSE EvContent)
  /\ delivered' = delivered + 1
  /\ UNCHANGED <<wsRest, minVars, auxVars, baseTpl, now, version, snapVars, watchVars, httpVars,
                 base_template, sessions_>>

\* an editor writes templates/base.html, or leaves it unreadable
EditBase(st) ==
  /\ delivered < MaxEvents
  /\ st # "absent"
  /\ baseTpl' = st
  /\ events' = Append(events, EvTemplate)
  /\ delivered' = delivered + 1
  /\ UNCHANGED <<wsRest, minVars, auxVars, disk, now, version, snapVars, watchVars, httpVars,
                 base_template, sessions_>>

\* any other file of the watched roots changes
OtherEvent(ev) ==
  /\ delivered < MaxEvents
  /\ ev = EvCss
  /\ events' = Append(events, ev)
  /\ delivered' = delivered + 1
  /\ UNCHANGED <<wsRest, minVars, auxVars, diskVars, now, version, snapVars, watchVars, httpVars,
                 base_template, sessions_>>

\* do_accept's handler on the WebSocket thread: a browser connects
ClientConnect(c) ==
  /\ c = Cardinality(sessions_) + 1
  /\ sessions_' = sessions_ \cup {c}
  /\ UNCHANGED <<wsRest, minVars, auxVars, diskVars, now, version, snapVars, events, delivered,
                 watchVars, httpVars, base_template>>

(* ------------------------------------------- watcher thread: handleFileAction *)
\* the early returns: the event is dropped
handleFileAction_Ignore ==
  /\ wpc = "idle"
  /\ events # <<>>
  /\ ~Accepted(Head(events))
  /\ events' = Tail(events)
  /\ UNCHANGED <<wsRest, minVars, auxVars, diskVars, now, version, snapVars, delivered, watchVars,
                 httpVars, base_template, sessions_>>

\* the event passes the filter and the handler enters its try block
handleFileAction_Accept ==
  /\ wpc = "idle"
  /\ events # <<>>
  /\ Accepted(Head(events))
  /\ events' = Tail(events)
  /\ wev' = Head(events)
  /\ wpc' = "try"
  /\ wprev' = version
  /\ wdisc' = 0
  /\ wbc' = 0
  /\ wmsg' = NoMsg
  /\ UNCHANGED <<wsRest, minVars, auxVars, diskVars, now, version, snapVars, delivered,
                 wscan, failedBefore, httpVars, base_template, sessions_>>

\* classification; a change under templates reloads base.html when it
\* exists, and read_file raises when it cannot be opened
handleFileAction_Classify ==
  /\ wpc = "try"
  /\ IF ChangeType(wev) = "template" /\ baseTpl = "bad"
     THEN wpc' = "catch" /\ UNCHANGED base_template
     ELSE /\ wpc' = "discover"
          /\ base_template' = IF ChangeType(wev) = "template" /\ baseTpl = "ok"
                              THEN "ok" ELSE base_template
  /\ UNCHANGED <<wsRest, minVars, auxVars, diskVars, now, version, snapVars, events, delivered, wev,
                 wscan, wprev, wdisc, wbc, wmsg, failedBefore,
                 httpVars, sessions_>>

\* discover_content: std::unique_lock on pages_mutex_
discover_content_Lock ==
  /\ wpc = "discover"
  /\ ~writer /\ readers = 0
  /\ writer' = TRUE
  /\ wpc' = "clear"
  /\ wdisc' = wdisc + 1
  /\ UNCHANGED <<wsRest, minVars, auxVars, diskVars, now, version, pages, collections, gen, readers,
                 listing, events, delivered, wev, wscan, wprev, wbc, wmsg,
                 failedBefore, httpVars, base_template, sessions_>>

\* pages.clear(); collections.clear(); the directory walk starts (a missing
\* content directory leaves the same state as a walk of an empty one)
discover_content_Clear ==
  /\ wpc = "clear"
  /\ pages' = <<>>
  /\ collections' = <<>>
  /\ gen' = gen + 1
  /\ wscan' = {f \in DOMAIN disk : disk[f] # "absent"}
  /\ listing' = {f \in DOMAIN disk : disk[f] # "absent"}
  /\ wpc' = "scan"
  /\ UNCHANGED <<wsRest, minVars, auxVars, diskVars, now, version, writer, readers, events, delivered,
                 wev, wprev, wdisc, wbc, wmsg, failedBefore, httpVars,
                 base_template, sessions_>>

\* one iteration of the walk: read, parse, pages[url_path] = page
discover_content_Visit(f) ==
  /\ wpc = "scan"
  /\ f \in wscan
  /\ disk[f] = "ok"
  /\ pages' = Insert(pages, PageOf(f, gen))
  /\ wscan' = wscan \ {f}
  /\ UNCHANGED <<wsRest, minVars, auxVars, diskVars, now, version, collections, gen, writer, readers,
                 listing, events, delivered, wpc, wev, wprev, wdisc, wbc,
                 wmsg, failedBefore, httpVars, base_template,
                 sessions_>>

\* read_file or FrontMatter::parse raises: the lock guard unlocks and the
\* exception leaves discover_content before build_collections
discover_content_Throw(f) ==
  /\ wpc = "scan"
  /\ f \in wscan
  /\ disk[f] # "ok"
  /\ writer' = FALSE
  /\ wscan' = {}
  /\ wpc' = "catch"
  /\ UNCHANGED <<wsRest, minVars, auxVars, diskVars, now, version, pages, collections, gen, readers,
                 listing, events, delivered, wev, wprev, wdisc, wbc, wmsg,
                 failedBefore, httpVars, base_template, sessions_>>

\* the walk is over: build_collections, unlock, return
discover_content_Finish ==
  /\ wpc = "scan"
  /\ wscan = {}
  /\ collections' \in BuildCollections(pages)
  /\ writer' = FALSE
  /\ wpc' = "bump"
  /\ UNCHANGED <<wsRest, minVars, auxVars, diskVars, now, version, pages, gen, readers, listing, events,
                 delivered, wev, wscan, wprev, wdisc, wbc, wmsg, failedBefore,
                 httpVars, base_template, sessions_>>

\* BuildInfo::generate_build_version: milliseconds since the epoch
NewVersion(v, clock) == clock

generate_build_version ==
  /\ wpc = "bump"
  /\ version' = NewVersion(version, now)
  /\ wpc' = "notify"
  /\ UNCHANGED <<wsRest, minVars, auxVars, diskVars, now, snapVars, events, delivered, wev, wscan,
                 wprev, wdisc, wbc, wmsg, failedBefore, httpVars,
                 base_template, sessions_>>

\* ws->client_count() > 0 guards ws->broadcast_reload(change_type, version)
handleFileAction_Notify ==
  /\ wpc = "notify"
  /\ IF Cardinality(sessions_) > 0 /\ ~(shutting_down_ \/ ~running_)
     THEN /\ wbc' = wbc + 1
          /\ wmsg' = [type |-> ChangeType(wev), version |-> version]
     ELSE UNCHANGED <<wbc, wmsg>>
  /\ wpc' = "done"
  /\ UNCHANGED <<wsRest, minVars, auxVars, diskVars, now, version, snapVars, events, delivered, wev,
                 wscan, wprev, wdisc, failedBefore, httpVars,
                 base_template, sessions_>>

\* a catch block that logs and rethrows: the exception leaves the handler
handleFileAction_Catch_Rethrow ==
  /\ wpc = "catch"
  /\ wpc' = "escaped"
  /\ UNCHANGED <<wsRest, minVars, auxVars, diskVars, now, version, snapVars, events,
                 delivered, wev, wscan, wprev, wdisc, wbc, wmsg, failedBefore,
                 httpVars, base_template, sessions_>>

\* catch (const std::exception &): "Rebuild failed" is logged
handleFileAction_Catch ==
  /\ wpc = "catch"
  /\ wpc' = "failed"
  /\ UNCHANGED <<wsRest, minVars, auxVars, diskVars, now, version, snapVars, events,
                 delivered, wev, wscan, wprev, wdisc, wbc, wmsg, failedBefore,
                 httpVars, base_template, sessions_>>

\* handleFileAction returns to the watcher's delivery loop; its locals are gone
handleFileAction_Return ==
  /\ wpc \in {"done", "failed"}
  /\ wpc' = "idle"
  /\ failedBefore' = (failedBefore \/ wpc = "failed")
  /\ wev' = NoEvent
  /\ wprev' = version
  /\ wdisc' = 0
  /\ wbc' = 0
  /\ wmsg' = NoMsg
  /\ UNCHANGED <<wsRest, minVars, auxVars, diskVars, now, version, snapVars, events,
                 delivered, wscan, httpVars, base_template, sessions_>>

(* ---------------------------------------- HTTP thread: the catch-all handler *)
\* handle_client hands a request to the catch-all handler
Request(u) ==
  /\ hpc = "idle"
  /\ hpc' = "find"
  /\ hreq' = u
  /\ hptr' = NoPtr
  /\ hstatus' = 0
  /\ hbody' = NoBody
  /\ UNCHANGED <<wsRest, minVars, auxVars, diskVars, now, version, snapVars, events, delivered,
                 watchVars, base_template, sessions_>>

\* what pages.find(url) returns on map pg
FindIn(pg, u) == IF u \in DOMAIN pg THEN PtrTo(pg[u]) ELSE NoPtr

\* the results of builder.get_pages() followed by pages.find(url): no lock is
\* taken; against a running walk the read races with the writes and may
\* also miss an entry that is there
Finds(pg, u, racing) ==
  {FindIn(pg, u)} \cup (IF racing THEN {NoPtr} ELSE {})

\* pages.find(url), then pages.find("/404") on a miss
handler_Find ==
  /\ hpc = "find"
  /\ \E it \in Finds(pages, hreq, writer) :
       IF it # NoPtr
       THEN hptr' = it /\ hstatus' = 200 /\ hpc' = "call_render" /\ UNCHANGED hbody
       ELSE \E errorPage \in Finds(pages, <<"404">>, writer) :
              /\ hptr' = errorPage
              /\ hstatus' = 404
              /\ IF errorPage = NoPtr
                 THEN hpc' = "respond" /\ hbody' = Inline404(hreq)
                 ELSE hpc' = "call_render" /\ UNCHANGED hbody
  /\ UNCHANGED <<wsRest, minVars, auxVars, diskVars, now, version, snapVars, events, delivered,
                 watchVars, hreq, base_template, sessions_>>

\* render_page: std::shared_lock on pages_mutex_
render_page_Lock ==
  /\ hpc = "call_render"
  /\ ~writer
  /\ readers' = readers + 1
  /\ hpc' = "render"
  /\ UNCHANGED <<wsRest, minVars, auxVars, diskVars, now, version, pages, collections, gen, writer,
                 listing, events, delivered, watchVars, hreq, hptr, hstatus, hbody,
                 base_template, sessions_>>

\* the body of render_page reads the page record, the collections, the
\* content template and base_template, then unlocks; a page record that is
\* gone is a dangling reference, and a base_template that is being assigned
\* is a data race: the render may produce anything, an exception included. The handler catches an exception of the render of a page it
\* found (500); the render of the /404 page is outside any try block, and
\* neither handle_client nor listen catches: the exception leaves the thread
render_page_Return ==
  /\ hpc = "render"
  /\ readers' = readers - 1
  /\ \E out \in (IF Live(hptr, pages)
                 THEN {RenderPage(pages[hptr.url], tplFile, base_template,
                                  version, collections)}
                        \cup (IF base_template = Torn THEN {Garbage, Throw} ELSE {})
                 ELSE {Garbage, Throw}) :
       IF out.ok
       THEN hpc' = "respond" /\ hbody' = PageBody(out) /\ UNCHANGED hstatus
       ELSE IF hstatus = 200
            THEN hpc' = "respond" /\ hstatus' = 500 /\ hbody' = ErrorBody
            ELSE hpc' = "escaped" /\ UNCHANGED <<hstatus, hbody>>
  /\ UNCHANGED <<wsRest, minVars, auxVars, diskVars, now, version, pages, collections, gen, writer,
                 listing, events, delivered, watchVars, hreq, hptr,
                 base_template, sessions_>>

\* the response is sent and the handler's locals are gone
Respond ==
  /\ hpc = "respond"
  /\ hpc' = "idle"
  /\ hreq' = NoUrl
  /\ hptr' = NoPtr
  /\ hstatus' = 0
  /\ hbody' = NoBody
  /\ UNCHANGED <<wsRest, minVars, auxVars, diskVars, now, version, snapVars, events,
                 delivered, watchVars, base_template, sessions_>>

(* ------------------------------------------------------------------ Next *)
DevNext ==
  \/ Tick
  \/ \E f \in Files, st \in FileStates : EditFile(f, st)
  \/ \E st \in FileStates : EditBase(st)
  \/ \E ev \in Events : OtherEvent(ev)
  \/ \E c \in 1..MaxClients : ClientConnect(c)
  \/ handleFileAction_Ignore
  \/ handleFileAction_Accept
  \/ handleFileAction_Classify
  \/ discover_content_Lock
  \/ discover_content_Clear
  \/ \E f \in Files : discover_content_Visit(f)
  \/ \E f \in Files : discover_content_Throw(f)
  \/ discover_content_Finish
  \/ generate_build_version
  \/ handleFileAction_Notify
  \/ handleFileAction_Catch
  \/ handleFileAction_Return
  \/ \E u \in RequestUrls : Request(u)
  \/ handler_Find
  \/ render_page_Lock
  \/ render_page_Return
  \/ Respond

Init == DevInit
Next == DevNext
Spec == Init /\ [][Next]_vars

(* ------------------------------------ the watcher thread taken on its own *)
\* a dev server started without templates/base.html, at rest, with one
\* event of any shape waiting for delivery
WatchInit ==
  /\ disk \in [Files -> FileStates]
  /\ baseTpl \in FileStates
  /\ base_template = ""
  /\ now = 1
  /\ version = 1
  /\ gen = 1
  /\ pages = ScanAll(Files, 1, <<>>)
  /\ collections = CHOOSE c \in BuildCollections(ScanAll(Files, 1, <<>>)) : TRUE
  /\ listing = Files
  /\ writer = FALSE
  /\ readers = 0
  /\ \E ev \in AllEvents : events = <<ev>>
  /\ delivered = 1
  /\ wpc = "idle"
  /\ wev = NoEvent
  /\ wscan = {}
  /\ wprev = 1
  /\ wdisc = 0
  /\ wbc = 0
  /\ wmsg = NoMsg
  /\ failedBefore = FALSE
  /\ hpc = "idle"
  /\ hreq = NoUrl
  /\ hptr = NoPtr
  /\ hstatus = 0
  /\ hbody = NoBody
  /\ \E n \in 0..MaxClients : sessions_ = 1..n
  /\ WsServing
  /\ MinIdle
  /\ AuxIdle

WatchNext ==
  \/ handleFileAction_Ignore
  \/ handleFileAction_Accept
  \/ handleFileAction_Classify
  \/ discover_content_Lock
  \/ discover_content_Clear
  \/ \E f \in Files : discover_content_Visit(f)
  \/ \E f \in Files : discover_content_Throw(f)
  \/ discover_content_Finish
  \/ generate_build_version
  \/ handleFileAction_Notify
  \/ handleFileAction_Catch
  \/ handleFileAction_Return

SpecWatch == WatchInit /\ [][WatchNext]_vars

(* ----------------------------------------------------------- render_page *)
MaxRenders == 2

\* an editor saves, removes or locks templates/{t}.html
EditTemplateFile(t, st) ==
  /\ st # tplFile[t]
  /\ tplFile' = [tplFile EXCEPT ![t] = st]
  /\ UNCHANGED <<devVars, wsRest, minVars, rcalls, serVars, buildVars, retryVars, lateVars>>

\* a caller (build_page, the catch-all handler) calls render_page on the
\* page at url u and gets its result
render_page_call(u) ==
  /\ Len(rcalls) < MaxRenders
  /\ u \in DOMAIN pages
  /\ rcalls' = Append(rcalls, [url |-> u,
                               out |-> RenderPage(pages[u], tplFile, base_template,
                                                  version, collections)])
  /\ UNCHANGED <<devVars, wsRest, minVars, tplFile, serVars, buildVars, retryVars, lateVars>>

\* a site at rest whose pages are rendered while templates are edited
RenderInit ==
  /\ DevIdle
  /\ WsServing
  /\ sessions_ = {}
  /\ MinIdle
  /\ AuxIdle

RenderNext ==
  \/ \E t \in TplTypes, st \in TplStates : EditTemplateFile(t, st)
  \/ \E u \in RequestUrls : render_page_call(u)

SpecRender == RenderInit /\ [][RenderNext]_vars

(* ------------------------------------------- the HTTP thread on its own *)
F_404 == [type |-> "pages", rest |-> <<"404">>, ext |-> ".md"]
HttpFiles == {F_index, F_404}

\* request paths: the two pages and a path no page has
HttpUrls == {UrlOf(f) : f \in HttpFiles} \cup {<<"missing">>}

\* a dev server at rest over a site with or without a home page and a 404
\* page, whose template templates/pages.html is in any state
HttpInit ==
  /\ disk \in [HttpFiles -> {"ok", "absent"}]
  /\ baseTpl = "ok"
  /\ base_template = "ok"
  /\ now = 1
  /\ version = 1
  /\ gen = 1
  /\ pages = ScanAll({f \in HttpFiles : disk[f] = "ok"}, 1, <<>>)
  /\ collections = <<>>
  /\ listing = {f \in HttpFiles : disk[f] = "ok"}
  /\ writer = FALSE
  /\ readers = 0
  /\ events = <<>>
  /\ delivered = 0
  /\ wpc = "idle"
  /\ wev = NoEvent
  /\ wscan = {}
  /\ wprev = 1
  /\ wdisc = 0
  /\ wbc = 0
  /\ wmsg = NoMsg
  /\ failedBefore = FALSE
  /\ hpc = "idle"
  /\ hreq = NoUrl
  /\ hptr = NoPtr
  /\ hstatus = 0
  /\ hbody = NoBody
  /\ sessions_ = {}
  /\ WsServing
  /\ MinIdle
  /\ tplFile \in {tf \in [TplTypes -> TplStates] : tf["blog"] = "t1"}
  /\ rcalls = <<>>
  /\ SerIdle
  /\ BuildIdle
  /\ RetryIdle
  /\ LateIdle

HttpNext ==
  \/ \E u \in HttpUrls : Request(u)
  \/ handler_Find
  \/ render_page_Lock
  \/ render_page_Return
  \/ Respond

SpecHttp == HttpInit /\ [][HttpNext]_vars

(* ------------------------------------------------- the build command *)
\* the trees a build starts from; one file of them may be unreadable
TreeDisks ==
  {d \in [TreeFiles -> FileStates] : \A f \in TreeFiles \ {F_post} : d[f] # "bad"}

\* the content templates at build time: templates/blog.html may be locked
BuildTpls == {tf \in [TplTypes -> TplStates] : tf["pages"] = "t1" /\ tf["blog"] \in {"t1", "locked"}}

\* main(), command "build": a SiteBuilder as constructed, about to call
\* discover_content
BuildInit ==
  /\ disk \in TreeDisks
  /\ baseTpl = "ok"
  /\ base_template = "ok"
  /\ now = 1
  /\ version = 1
  /\ gen = 0
  /\ pages = <<>>
  /\ collections = <<>>
  /\ listing = {}
  /\ writer = FALSE
  /\ readers = 0
  /\ events = <<>>
  /\ delivered = 0
  /\ wpc = "discover"
  /\ wev = NoEvent
  /\ wscan = {}
  /\ wprev = 1
  /\ wdisc = 0
  /\ wbc = 0
  /\ wmsg = NoMsg
  /\ failedBefore = FALSE
  /\ hpc = "idle"
  /\ hreq = NoUrl
  /\ hptr = NoPtr
  /\ hstatus = 0
  /\ hbody = NoBody
  /\ sessions_ = {}
  /\ WsServing
  /\ MinIdle
  /\ tplFile \in BuildTpls
  /\ rcalls = <<>>
  /\ SerIdle
  /\ bpc = "discover"
  /\ btodo = {}
  /\ success_count = 0
  /\ error_count = 0
  /\ bresult = <<>>
  /\ RetryIdle
  /\ LateIdle

\* an exception of discover_content reaches the catch block of main
main_Fatal ==
  /\ bpc = "discover"
  /\ wpc = "catch"
  /\ bpc' = "fatal"
  /\ UNCHANGED <<devVars, wsRest, minVars, renderVars, serVars, btodo,
                 success_count, error_count, bresult, retryVars, lateVars>>

\* discover_content has returned; export_static_site calls build_all, which
\* zeroes its counters and starts the for loop over pages
build_all_Begin ==
  /\ bpc = "discover"
  /\ wpc = "bump"
  /\ bpc' = "loop"
  /\ btodo' = DOMAIN pages
  /\ success_count' = 0
  /\ error_count' = 0
  /\ bresult' = [u \in DOMAIN pages |-> <<>>]
  /\ UNCHANGED <<devVars, wsRest, minVars, renderVars, serVars, retryVars, lateVars>>

\* a loop body that lets the exception of build_page leave the loop
build_all_Page_Abort(u, writeFails) ==
  /\ bpc = "loop"
  /\ u \in btodo
  /\ LET r == RenderPage(pages[u], tplFile, base_template, version, collections)
         failed == ~r.ok \/ writeFails
     IN /\ success_count' = IF failed THEN success_count ELSE success_count + 1
        /\ error_count' = IF failed THEN error_count + 1 ELSE error_count
        /\ bresult' = [bresult EXCEPT ![u] = Append(@, IF failed THEN "err" ELSE "ok")]
        /\ btodo' = IF failed THEN {} ELSE btodo \ {u}
  /\ UNCHANGED <<devVars, wsRest, minVars, renderVars, serVars, bpc, retryVars, lateVars>>

\* one round of the for loop: try { build_page(url); success_count++ }
\* catch (std::exception) { error_count++ }; build_page renders, minifies
\* and writes, and raises when render_page or write_file raises
build_all_Page(u, writeFails) ==
  /\ bpc = "loop"
  /\ u \in btodo
  /\ LET r == RenderPage(pages[u], tplFile, base_template, version, collections)
         failed == ~r.ok \/ writeFails
     IN /\ success_count' = IF failed THEN success_count ELSE success_count + 1
        /\ error_count' = IF failed THEN error_count + 1 ELSE error_count
        /\ bresult' = [bresult EXCEPT ![u] = Append(@, IF failed THEN "err" ELSE "ok")]
        /\ btodo' = btodo \ {u}
  /\ UNCHANGED <<devVars, wsRest, minVars, renderVars, serVars, bpc, retryVars, lateVars>>

\* the loop is over; the summary is printed
build_all_End ==
  /\ bpc = "loop"
  /\ btodo = {}
  /\ bpc' = "done"
  /\ UNCHANGED <<devVars, wsRest, minVars, renderVars, serVars, btodo,
                 success_count, error_count, bresult, retryVars, lateVars>>

\* every url a tree can give
TreeUrls == {UrlOf(f) : f \in TreeFiles}

BuildNext ==
  \/ discover_content_Lock
  \/ discover_content_Clear
  \/ \E f \in TreeFiles : discover_content_Visit(f)
  \/ \E f \in TreeFiles : discover_content_Throw(f)
  \/ discover_content_Finish
  \/ main_Fatal
  \/ build_all_Begin
  \/ \E u \in TreeUrls, writeFails \in BOOLEAN : build_all_Page(u, writeFails)
  \/ build_all_End

SpecBuild == BuildInit /\ [][BuildNext]_vars

(* -------------------------------------------------------- serialize_page *)
MaxValueLen == 4

\* INT_MAX: the largest value std::stoi returns
IntMax == 2147483647

\* front-matter values are strings, modelled as sequences of characters
DigitVal ==
  "0" :> 0 @@ "1" :> 1 @@ "2" :> 2 @@ "3" :> 3 @@ "4" :> 4 @@
  "5" :> 5 @@ "6" :> 6 @@ "7" :> 7 @@ "8" :> 8 @@ "9" :> 9

\* std::isdigit
IsDigit(c) == c \in DOMAIN DigitVal

S_true == <<"t", "r", "u", "e">>
S_false == <<"f", "a", "l", "s", "e">>

\* the values of the examples: Hello, True, 3, 4.5, 2024-01-05, 12/3/4,
\* 3000000000
ExampleValues ==
  {S_true, S_false, <<"H", "e", "l", "l", "o">>, <<"T", "r", "u", "e">>,
   <<"3">>, <<"4", ".", "5">>,
   <<"2", "0", "2", "4", "-", "0", "1", "-", "0", "5">>,
   <<"1", "2", "/", "3", "/", "4">>,
   <<"3", "0", "0", "0", "0", "0", "0", "0", "0", "0">>}

\* every string of up to MaxValueLen characters over 1, '.', '-' and a letter
ShortValues ==
  UNION {[1..n -> {"1", ".", "-", "a"}] : n \in 0..MaxValueLen}

FmValues == ExampleValues \cup ShortValues

\* std::count(value.begin(), value.end(), c)
Count(v, c) == Cardinality({i \in DOMAIN v : v[i] = c})

\* the decimal value of a string of digits, or -1 when it exceeds INT_MAX
RECURSIVE DecVal(_)
DecVal(ds) ==
  IF ds = <<>> THEN 0
  ELSE LET hi == DecVal(SubSeq(ds, 1, Len(ds) - 1))
           d == DigitVal[ds[Len(ds)]]
       IN IF hi < 0 \/ hi > (IntMax - d) \div 10 THEN 0 - 1 ELSE 10 * hi + d

\* the characters of v that are digits, in order
RECURSIVE DigitsOf(_)
DigitsOf(v) ==
  IF v = <<>> THEN <<>>
  ELSE IF IsDigit(v[1]) THEN <<v[1]>> \o DigitsOf(Tail(v)) ELSE DigitsOf(Tail(v))

\* std::regex_search(value, date_pattern) for \d{2,4}[-/]\d{1,2}[-/]\d{1,4}:
\* some position starts two digits, a separator, one or two digits, a
\* separator and a digit
DateSearch(v) ==
  LET D(i) == i \in DOMAIN v /\ IsDigit(v[i])
      P(i) == i \in DOMAIN v /\ v[i] \in {"-", "/"}
  IN \E i \in DOMAIN v :
       /\ D(i) /\ D(i + 1) /\ P(i + 2) /\ D(i + 3)
       /\ \/ P(i + 4) /\ D(i + 5)
          \/ D(i + 4) /\ P(i + 5) /\ D(i + 6)

JString(v) == [kind |-> "string", s |-> v]

\* std::stoi on a string of digits with at most a leading '-': no digit
\* raises invalid_argument, a value outside int raises out_of_range, and
\* the catch (...) block falls through to the string
Stoi(v) ==
  LET ds == DigitsOf(v)
      m == DecVal(ds)
      isIntMin == /\ v[1] = "-"
                  /\ ds # <<>>
                  /\ DecVal(SubSeq(ds, 1, Len(ds) - 1)) = IntMax \div 10
                  /\ ds[Len(ds)] = "8"
  IN IF ds = <<>> THEN JString(v)
     ELSE IF m >= 0 THEN [kind |-> "int", n |-> IF v[1] = "-" THEN 0 - m ELSE m]
     ELSE IF isIntMin THEN [kind |-> "int", n |-> 0 - IntMax - 1]
     ELSE JString(v)

\* std::stod on digits with one '.' and at most a leading '-': the value is
\* mant / 10^scale; no digit raises invalid_argument
Stod(v) ==
  LET ds == DigitsOf(v)
      dot == CHOOSE i \in DOMAIN v : v[i] = "."
  IN IF ds = <<>>
     THEN JString(v)
     ELSE [kind |-> "float", neg |-> v[1] = "-", mant |-> DecVal(ds),
           scale |-> Len(v) - dot]

\* what serialize_page stores for a scalar front-matter value
Coerce(v) ==
  IF v = S_true \/ v = S_false THEN [kind |-> "bool", b |-> (v = S_true)]
  ELSE IF DateSearch(v) THEN JString(v)
  ELSE LET all_of == v # <<>> /\ \A i \in DOMAIN v : IsDigit(v[i]) \/ v[i] \in {".", "-"}
           dot_count == Count(v, ".")
           hyphen_count == Count(v, "-")
           is_number == /\ all_of
                        /\ dot_count <= 1 /\ hyphen_count <= 1
                        /\ ~(hyphen_count = 1 /\ v[1] # "-")
       IN IF is_number
          THEN IF dot_count = 1 THEN Stod(v) ELSE Stoi(v)
          ELSE JString(v)

\* serialize_page reaches the key of this value
serialize_page ==
  /\ page_json = NoJson
  /\ page_json' = Coerce(value)
  /\ UNCHANGED <<devVars, wsRest, minVars, renderVars, value, buildVars, retryVars, lateVars>>

\* a page whose front matter holds one scalar value
SerInit ==
  /\ DevIdle
  /\ WsServing
  /\ sessions_ = {}
  /\ MinIdle
  /\ RenderIdle
  /\ value \in FmValues
  /\ page_json = NoJson
  /\ BuildIdle
  /\ RetryIdle
  /\ LateIdle

SerNext == serialize_page

SpecSerialize == SerInit /\ [][SerNext]_vars

(* --------------------------------------------------- the WebSocketManager *)
\* broadcast_reload calls the watcher makes in one run
MaxBroadcasts == 2

\* a WebSocketManager as constructed, before start()
WsInit ==
  /\ DevIdle
  /\ MinIdle
  /\ AuxIdle
  /\ sessions_ = {}
  /\ running_ = FALSE
  /\ shutting_down_ = FALSE
  /\ iocMade = FALSE
  /\ iocStopped = FALSE
  /\ acceptArmed = FALSE
  /\ conn = [c \in Clients |-> "none"]
  /\ tpc = "none"
  /\ tcur = 0
  /\ mpc = "init"
  /\ bcalls = 0
  /\ posted = 0
  /\ postedAfterStop = 0

\* start(): running_ = true, the server thread is launched, return true
start ==
  /\ mpc = "init"
  /\ running_' = TRUE
  /\ tpc' = "launch"
  /\ mpc' = "serving"
  /\ UNCHANGED <<devRest, minVars, auxVars, sessions_, shutting_down_, iocMade,
                 iocStopped, acceptArmed, conn, tcur, bcalls, posted,
                 postedAfterStop>>

\* server thread: ioc_ = std::make_unique<net::io_context>()
thread_MakeIoc ==
  /\ tpc = "launch"
  /\ iocMade' = TRUE
  /\ tpc' = "setup"
  /\ UNCHANGED <<devRest, minVars, auxVars, sessions_, running_, shutting_down_,
                 iocStopped, acceptArmed, conn, tcur, mpc, bcalls, posted,
                 postedAfterStop>>

\* server thread: the acceptor is opened and do_accept arms the first
\* async_accept; a bind failure raises, is caught and ends the thread
thread_Listen(bound) ==
  /\ tpc = "setup"
  /\ IF bound
     THEN acceptArmed' = TRUE /\ tpc' = "run"
     ELSE acceptArmed' = FALSE /\ tpc' = "exited"
  /\ UNCHANGED <<devRest, minVars, auxVars, sessions_, running_, shutting_down_,
                 iocMade, iocStopped, conn, tcur, mpc, bcalls, posted,
                 postedAfterStop>>

\* a browser opens a TCP connection to the WebSocket port
client_Connect(c) ==
  /\ conn[c] = "none"
  /\ tpc \in {"run", "acc_add", "acc_run"}
  /\ conn' = [conn EXCEPT ![c] = "tcp"]
  /\ UNCHANGED <<devRest, minVars, auxVars, sessions_, running_, shutting_down_,
                 iocMade, iocStopped, acceptArmed, tpc, tcur, mpc, bcalls,
                 posted, postedAfterStop>>

\* the io_context dispatches a handler only while it runs and is not stopped
Dispatching == tpc = "run" /\ ~iocStopped

\* do_accept's handler, !ec: make_shared<WebSocketSession>
accept_Begin(c) ==
  /\ Dispatching
  /\ acceptArmed
  /\ conn[c] = "tcp"
  /\ acceptArmed' = FALSE
  /\ conn' = [conn EXCEPT ![c] = "accepted"]
  /\ tcur' = c
  /\ tpc' = "acc_add"
  /\ UNCHANGED <<devRest, minVars, auxVars, sessions_, running_, shutting_down_,
                 iocMade, iocStopped, mpc, bcalls, posted, postedAfterStop>>

\* add_session(session): sessions_.insert under mutex_
add_session ==
  /\ tpc = "acc_add"
  /\ sessions_' = sessions_ \cup {tcur}
  /\ tpc' = "acc_run"
  /\ UNCHANGED <<devRest, minVars, auxVars, running_, shutting_down_, iocMade,
                 iocStopped, acceptArmed, conn, tcur, mpc, bcalls, posted,
                 postedAfterStop>>

\* session->run() starts the handshake; if (running_.load()) do_accept
accept_End ==
  /\ tpc = "acc_run"
  /\ conn' = [conn EXCEPT ![tcur] = "handshake"]
  /\ acceptArmed' = running_
  /\ tpc' = "run"
  /\ UNCHANGED <<devRest, minVars, auxVars, sessions_, running_, shutting_down_,
                 iocMade, iocStopped, tcur, mpc, bcalls, posted,
                 postedAfterStop>>

\* WebSocketSession::on_accept(ec): on success do_read, on failure only a
\* log line
on_accept(c, ok) ==
  /\ Dispatching
  /\ conn[c] = "handshake"
  /\ conn' = [conn EXCEPT ![c] = IF ok THEN "open" ELSE "failed"]
  /\ UNCHANGED <<devRest, minVars, auxVars, sessions_, running_, shutting_down_,
                 iocMade, iocStopped, acceptArmed, tpc, tcur, mpc, bcalls,
                 posted, postedAfterStop>>

\* WebSocketSession::on_read(ec) with ec = closed or another error: a log
\* line and return, no further read is started
on_read_Closed(c) ==
  /\ Dispatching
  /\ conn[c] = "open"
  /\ conn' = [conn EXCEPT ![c] = "closed"]
  /\ UNCHANGED <<devRest, minVars, auxVars, sessions_, running_, shutting_down_,
                 iocMade, iocStopped, acceptArmed, tpc, tcur, mpc, bcalls,
                 posted, postedAfterStop>>

\* ioc_->run() returns when the io_context is stopped or out of work, and
\* the thread function ends
thread_Exit ==
  /\ tpc = "run"
  /\ \/ iocStopped
     \/ ~acceptArmed /\ \A c \in Clients : conn[c] \notin {"handshake", "open"}
  /\ tpc' = "exited"
  /\ UNCHANGED <<devRest, minVars, auxVars, sessions_, running_, shutting_down_,
                 iocMade, iocStopped, acceptArmed, conn, tcur, mpc, bcalls,
                 posted, postedAfterStop>>

\* stop(): running_.exchange(false) was true; shutting_down_ = true
stop_Begin ==
  /\ mpc = "serving"
  /\ running_
  /\ running_' = FALSE
  /\ shutting_down_' = TRUE
  /\ mpc' = "stop_ioc"
  /\ UNCHANGED <<devRest, minVars, auxVars, sessions_, iocMade, iocStopped,
                 acceptArmed, conn, tpc, tcur, bcalls, posted,
                 postedAfterStop>>

\* stop(): if (ioc_) ioc_->stop()
stop_Ioc ==
  /\ mpc = "stop_ioc"
  /\ iocStopped' = (iocStopped \/ iocMade)
  /\ mpc' = "stop_clear"
  /\ UNCHANGED <<devRest, minVars, auxVars, sessions_, running_, shutting_down_,
                 iocMade, acceptArmed, conn, tpc, tcur, bcalls, posted,
                 postedAfterStop>>

\* stop(): sessions_.clear() under mutex_
stop_Clear ==
  /\ mpc = "stop_clear"
  /\ sessions_' = {}
  /\ mpc' = "stop_join"
  /\ UNCHANGED <<devRest, minVars, auxVars, running_, shutting_down_, iocMade,
                 iocStopped, acceptArmed, conn, tpc, tcur, bcalls, posted,
                 postedAfterStop>>

\* stop(): ws_thread_.join() returns once the thread has ended;
\* shutting_down_ = false; return
stop_Join ==
  /\ mpc = "stop_join"
  /\ tpc = "exited"
  /\ shutting_down_' = FALSE
  /\ mpc' = "stopped"
  /\ UNCHANGED <<devRest, minVars, auxVars, sessions_, running_, iocMade, iocStopped,
                 acceptArmed, conn, tpc, tcur, bcalls, posted,
                 postedAfterStop>>

\* session->is_open()
IsOpen(c) == conn[c] = "open"

\* the sessions a broadcast_reload call posts its message to
Recipients == 
  IF shutting_down_ \/ ~running_ THEN {} ELSE {c \in sessions_ : IsOpen(c)}

\* broadcast_reload(change_type, version), called from the watcher thread
broadcast_reload ==
  /\ mpc # "init"
  /\ bcalls < MaxBroadcasts
  /\ bcalls' = bcalls + 1
  /\ posted' = Cardinality(Recipients)
  /\ postedAfterStop' =
       IF mpc = "stopped" THEN postedAfterStop + Cardinality(Recipients)
       ELSE postedAfterStop
  /\ UNCHANGED <<devRest, minVars, auxVars, sessions_, running_, shutting_down_,
                 iocMade, iocStopped, acceptArmed, conn, tpc, tcur, mpc>>

WsNext ==
  \/ start
  \/ thread_MakeIoc
  \/ \E bound \in BOOLEAN : thread_Listen(bound)
  \/ \E c \in Clients : client_Connect(c)
  \/ \E c \in Clients : accept_Begin(c)
  \/ add_session
  \/ accept_End
  \/ \E c \in Clients, ok \in BOOLEAN : on_accept(c, ok)
  \/ \E c \in Clients : on_read_Closed(c)
  \/ thread_Exit
  \/ stop_Begin
  \/ stop_Ioc
  \/ stop_Clear
  \/ stop_Join
  \/ broadcast_reload

SpecWS == WsInit /\ [][WsNext]_vars

\* scheduling: a thread that can take its next step takes it, and the
\* io_context runs a handler that is ready; when a browser connects or
\* closes is up to the browser
WsFairness ==
  /\ WF_vars(thread_MakeIoc)
  /\ WF_vars(\E bound \in BOOLEAN : thread_Listen(bound))
  /\ WF_vars(\E c \in Clients : accept_Begin(c))
  /\ WF_vars(add_session)
  /\ WF_vars(accept_End)
  /\ WF_vars(\E c \in Clients, ok \in BOOLEAN : on_accept(c, ok))
  /\ WF_vars(thread_Exit)
  /\ WF_vars(stop_Ioc)
  /\ WF_vars(stop_Clear)
  /\ WF_vars(stop_Join)

SpecWSFair == SpecWS /\ WsFairness

(* -------------------------------------------- properties: WebSocketManager *)
\* C8: between start() and stop(), the session set holds exactly the
\* connections whose WebSocket handshake has succeeded and that have not
\* since closed or failed.
C8_SessionsAreOpenConnections ==
  mpc = "serving" => sessions_ = {c \in Clients : conn[c] = "open"}

\* C9: when stop() has returned, the session set is empty, the server
\* thread has ended with no accept outstanding, and no broadcast_reload
\* issued after stop() posted a message.
C9_StopLeavesNothingBehind ==
  mpc = "stopped" =>
    /\ sessions_ = {}
    /\ tpc = "exited"
    /\ postedAfterStop = 0

(* ------------------------------------------------- the minifier fallback *)
\* iterations of the pending-job pump of JSMinifier::minifyJS
PumpLimit == 100

\* texts handed to the minifiers
Texts == {"", "a { }", "/* c */"}

\* texts the delegated minifier can hand back
Minified == {"", "a{}"}

MinKinds == {"css", "js", "html"}

Nullopt == <<>>
Some(t) == <<t>>

\* std::optional::value_or
ValueOr(opt, dflt) == IF opt = Nullopt THEN dflt ELSE opt[1]

MinInit ==
  /\ DevIdle
  /\ WsServing
  /\ sessions_ = {}
  /\ MinIdle
  /\ AuxIdle

wsVars == <<sessions_, wsRest>>

\* minify_css_content / minify_js_content / minify_html_content is called;
\* with minification off the input is returned at once
minify_content(kind, text, enabled) ==
  /\ jpc = "idle"
  /\ jkind' = kind
  /\ jin' = text
  /\ jenabled' = enabled
  /\ jjobs' = 0
  /\ ji' = 0
  /\ jres' = "none"
  /\ jopt' = Nullopt
  /\ IF enabled
     THEN jpc' = "engine" /\ jout' = "none"
     ELSE jpc' = "returned" /\ jout' = text
  /\ UNCHANGED <<devRest, wsVars, auxVars>>

\* minifyCSS / minifyHTML: JS_Call returns an exception (nullopt) or a string
minify_Sync(raised, r) ==
  /\ jpc = "engine"
  /\ jkind \in {"css", "html"}
  /\ jopt' = IF raised THEN Nullopt ELSE Some(r)
  /\ jpc' = "value_or"
  /\ UNCHANGED <<devRest, wsVars, auxVars, jkind, jin, jenabled, jjobs, ji, jres, jout>>

\* minifyJS: JS_Call returns an exception (nullopt) or the result/error
\* pair of a promise that settles, with r or with an error, after n jobs
minifyJS_Call(raised, n, r) ==
  /\ jpc = "engine"
  /\ jkind = "js"
  /\ IF raised
     THEN jpc' = "value_or" /\ UNCHANGED <<jjobs, jres>>
     ELSE jpc' = "pump" /\ jjobs' = n /\ jres' = r
  /\ jopt' = Nullopt
  /\ ji' = 0
  /\ UNCHANGED <<devRest, wsVars, auxVars, jkind, jin, jenabled, jout>>

\* one round of for (i = 0; i < 100; i++): JS_ExecutePendingJob runs a job
\* (err > 0), finds none (err == 0, break) or fails (err < 0, nullopt)
minifyJS_Pump(jobFails) ==
  /\ jpc = "pump"
  /\ IF ji >= PumpLimit \/ jjobs = 0
     THEN jpc' = "read" /\ UNCHANGED <<ji, jjobs>>
     ELSE IF jobFails
          THEN jpc' = "value_or" /\ UNCHANGED <<ji, jjobs>>
          ELSE jpc' = "pump" /\ ji' = ji + 1 /\ jjobs' = jjobs - 1
  /\ UNCHANGED <<devRest, wsVars, auxVars, jkind, jin, jenabled, jres, jopt, jout>>

\* result() and error() are read: an unsettled promise gives null for both,
\* a rejected one an error, a fulfilled one its code
minifyJS_Read ==
  /\ jpc = "read"
  /\ jopt' = IF jjobs > 0 \/ jres = "error" THEN Nullopt ELSE Some(jres)
  /\ jpc' = "value_or"
  /\ UNCHANGED <<devRest, wsVars, auxVars, jkind, jin, jenabled, jjobs, ji, jres, jout>>

\* return result.value_or(text)
minify_Return ==
  /\ jpc = "value_or"
  /\ jout' = ValueOr(jopt, jin)
  /\ jpc' = "returned"
  /\ UNCHANGED <<devRest, wsVars, auxVars, jkind, jin, jenabled, jjobs, ji, jres, jopt>>

\* the caller goes on
minify_Done ==
  /\ jpc = "returned"
  /\ jpc' = "idle"
  /\ UNCHANGED <<devRest, wsVars, auxVars, jkind, jin, jenabled, jjobs, ji, jres, jopt,
                 jout>>

MinNext ==
  \/ \E k \in MinKinds, t \in Texts, e \in BOOLEAN : minify_content(k, t, e)
  \/ \E raised \in BOOLEAN, r \in Minified : minify_Sync(raised, r)
  \/ \E raised \in BOOLEAN, n \in 0..(PumpLimit + 1), r \in Minified \cup {"error"} :
       minifyJS_Call(raised, n, r)
  \/ \E jobFails \in BOOLEAN : minifyJS_Pump(jobFails)
  \/ minifyJS_Read
  \/ minify_Return
  \/ minify_Done

SpecMinify == MinInit /\ [][MinNext]_vars

(* ------------------------------------------------- properties: minifiers *)
\* C10: when a minify_*_content call has returned: if the delegated minifier
\* raised, ran out of pump iterations or produced an empty result, the
\* original input is returned; and a non-empty input never yields an empty
\* string.
C10_FallbackToOriginal ==
  jpc = "returned" =>
    /\ (jenabled /\ (jopt = Nullopt \/ jopt = Some("")) => jout = jin)
    /\ (jin # "" => jout # "")

(* ------------------------------------------------ properties: the dev server *)
\* the watcher is between clearing the snapshot and finishing build_collections
Rebuilding == wpc = "scan"

\* no rediscovery has raised so far
NoFailureYet == ~failedBefore /\ wpc \notin {"catch", "failed"}

\* C1: (already in runs in which no rediscovery raises) whenever the HTTP
\* thread is inside the body of render_page, the page record it was handed
\* and the collections it reads belong to one and the same complete
\* snapshot: the record is still the one in the pages map, and the map and
\* the collections are the result of one finished walk.
C1_RenderReadsOneSnapshot ==
  (hpc = "render" /\ NoFailureYet) => Live(hptr, pages) /\ SnapshotComplete

\* C2: neither the route lookup of the catch-all handler (pages.find) nor a
\* render_page body is in progress while discover_content is between
\* clearing the snapshot and finishing build_collections.
C2_LookupAndRenderExcludeRebuild ==
  ~(hpc \in {"find", "render"} /\ Rebuilding)

\* C3: when the handling of an event that passed the filter is over,
\* discover_content has run exactly once for it, and a run is never under a
\* reader or a second writer.
C3_OneRediscoveryPerEvent ==
  /\ wpc \in {"done", "failed"} => wdisc = 1
  /\ wpc \in {"clear", "scan"} => writer /\ readers = 0

\* C4: after every successful rebuild (discover_content followed by
\* generate_build_version) the build version is strictly greater than the
\* version before that rebuild.
C4_VersionStrictlyIncreases ==
  wpc \in {"notify", "done"} => version > wprev

\* C5: when the handling of a create/modify event for a watched file under
\* the content root is over, it has made exactly one rediscovery and exactly
\* one broadcast, of type "content", whose version is strictly greater than
\* the build version before the event.
C5_ContentEventOneBroadcast ==
  (wpc \in {"done", "failed"} /\ wev.root = "content") =>
    /\ wdisc = 1
    /\ wbc = 1
    /\ wmsg.type = "content"
    /\ wmsg.version > wprev

\* C6: at every moment at which a reader can hold the snapshot lock (no
\* writer holds it), the pages map is the complete result of one finished
\* walk of the content tree and the collections are built from exactly that
\* map, also after a discover_content that raised partway through its walk.
C6_ReadersSeeCompleteSnapshot ==
  ~writer => SnapshotComplete

\* C7: when a watcher-triggered rebuild raises, handleFileAction absorbs the
\* failure: the build version is the one before the event, nothing was
\* broadcast for the event, and the exception does not leave the handler,
\* so the watcher goes on to the next event.
C7_RebuildFailureAbsorbed ==
  /\ wpc \in {"catch", "failed"} => version = wprev /\ wbc = 0 /\ wmsg = NoMsg
  /\ wpc # "escaped"

\* the rebuild of a later event raised and was absorbed after the rebuild
\* of an earlier event had raised
C7_Witness == wpc = "failed" /\ failedBefore

(* ------------------------------------------ properties: the watcher filter *)
\* the events the filter is said to drop: an empty name or one that begins
\* with '.' or '~', an extension outside the six, an action that is neither
\* add nor modify
FilteredOut(ev) ==
  \/ ev.first \in {"", ".", "~"}
  \/ ev.ext \notin {".md", ".yaml", ".yml", ".html", ".css", ".js"}
  \/ ev.action \notin {"Add", "Modified"}

\* C11: an event with an empty, dot or tilde file name, an unwatched
\* extension, or an action other than add and modify is dropped: taking it
\* off the queue reloads no base template, runs no rediscovery, leaves the
\* snapshot and the version alone and broadcasts nothing
C11_FilteredEventChangesNothing ==
  [][(wpc = "idle" /\ events # <<>> /\ FilteredOut(Head(events)))
       => UNCHANGED <<wpc, base_template, pages, collections, gen, listing,
                      version, wdisc, wbc, wmsg, bcalls, posted>>]_vars

\* an event was taken off the queue and neither a rediscovery nor a failed
\* reload followed: it was dropped
C11_Witness ==
  /\ events = <<>>
  /\ wpc = "idle"
  /\ gen = 1
  /\ ~failedBefore
  /\ base_template = ""
  /\ baseTpl = "ok"

\* the change type the classification is said to give
ClassifiedAs(ev) ==
  CASE ev.root = "templates" -> "template"
    [] ev.root # "templates" /\ ev.ext = ".css" -> "css"
    [] ev.root # "templates" /\ ev.ext = ".js" -> "js"
    [] ev.root # "templates" /\ ev.ext \in {".yaml", ".yml"} -> "config"
    [] ev.root = "content" /\ ev.ext \notin {".css", ".js", ".yaml", ".yml"} -> "content"
    [] OTHER -> "reload"

\* C12: an accepted event has one change type (template under the template
\* root, else css / js / config by extension, else content under the content
\* root, else reload), the broadcast carries it, and for a template change
\* the text of a readable base.html is loaded before the rediscovery starts
C12_ClassificationAndBroadcastType ==
  wpc \in {"discover", "clear", "scan", "bump", "notify", "done"} =>
    /\ wmsg # NoMsg => wmsg.type = ClassifiedAs(wev)
    /\ wpc = "done" /\ sessions_ # {} => wmsg # NoMsg
    /\ (wev.root = "templates" /\ baseTpl = "ok") => base_template = "ok"

\* a stylesheet under the content root was announced as css
C12_Witness ==
  /\ wpc = "done"
  /\ wev.root = "content"
  /\ wev.ext = ".css"
  /\ wmsg.type = "css"

(* ------------------------------------------------ properties: render_page *)
\* C13: two render_page calls on the same page, with no rediscovery, base
\* template reload or version change between them, return the same output,
\* and the calls leave the snapshot and the build version as they were
C13_RenderIdempotent ==
  /\ \A i, j \in DOMAIN rcalls :
       rcalls[i].url = rcalls[j].url => rcalls[i].out = rcalls[j].out
  /\ pages = ScanAll(Files, 1, <<>>)
  /\ collections \in BuildCollections(pages)
  /\ version = 1

(* --------------------------------------------- properties: the build command *)
\* a path without its trailing "index" segment
DropIndex(rest) ==
  IF rest # <<>> /\ rest[Len(rest)] = "index" THEN SubSeq(rest, 1, Len(rest) - 1) ELSE rest

\* the url the derivation is said to give: "/" for pages/index, "/{stem}"
\* for another file directly under pages, else the content type followed by
\* the rest of the relative path, directories kept and a trailing index dropped
StatedUrl(f) ==
  IF f.type = "pages"
  THEN DropIndex(f.rest)
  ELSE <<f.type>> \o DropIndex(f.rest)

\* C14: every discovered page has the url the rule gives for its file:
\* pages/index.md -> /, pages/about.md -> /about, blog/index.md -> /blog,
\* blog/post1.md -> /blog/post1, and a file in a nested directory keeps its
\* directory segments
C14_UrlDerivation ==
  \A u \in DOMAIN pages : pages[u].url = StatedUrl(pages[u].src)

\* discover_content has returned normally
Discovered == wpc = "bump"

\* the positions of collection t that refer to the page at url u
EntriesOf(t, u) ==
  {i \in DOMAIN collections[t] : collections[t][i] = PtrTo(pages[u])}

\* C15: after a completed discover_content no collection is named "pages",
\* every page of another content type is listed exactly once and only in
\* the collection of its type, and every entry of a collection refers to a
\* page of the current map that has that content type
C15_CollectionsPartitionPages ==
  Discovered =>
    /\ "pages" \notin DOMAIN collections
    /\ \A u \in DOMAIN pages :
         pages[u].ctype # "pages" =>
           /\ pages[u].ctype \in DOMAIN collections
           /\ \A t \in DOMAIN collections :
                Cardinality(EntriesOf(t, u)) = IF t = pages[u].ctype THEN 1 ELSE 0
    /\ \A t \in DOMAIN collections : \A i \in DOMAIN collections[t] :
         /\ Live(collections[t][i], pages)
         /\ pages[collections[t][i].url].ctype = t

\* a walk found two pages for the blog and two outside any collection
C15_Witness ==
  /\ Discovered
  /\ "blog" \in DOMAIN collections
  /\ Len(collections["blog"]) = 2
  /\ Cardinality({u \in DOMAIN pages : pages[u].ctype = "pages"}) = 2

\* a <= b in plain string comparison: a is a prefix of b, or the strings
\* first differ at a position where a has the smaller character
LexLE(a, b) ==
  \E k \in 0..Len(a) :
    /\ k <= Len(b)
    /\ \A n \in 1..k : a[n] = b[n]
    /\ \/ k = Len(a)
       \/ k < Len(b) /\ a[k + 1] < b[k + 1]

\* the sort key of the i-th entry of collection t
SortKey(t, i) ==
  LET fm == pages[collections[t][i].url].fm
      key == ConfigCollections[t].sort_by
  IN IF key \in DOMAIN fm THEN fm[key] ELSE <<>>

C18_BuildAllPartialFailure ==
  /\ bpc \in {"loop", "done"} =>
       /\ DOMAIN bresult = DOMAIN pages
       /\ \A u \in DOMAIN pages : Len(bresult[u]) = IF u \in btodo THEN 0 ELSE 1
       /\ success_count = Cardinality({u \in DOMAIN pages : bresult[u] = <<"ok">>})
       /\ error_count = Cardinality({u \in DOMAIN pages : bresult[u] = <<"err">>})
  /\ bpc = "done" =>
       /\ btodo = {}
       /\ success_count + error_count = Cardinality(DOMAIN pages)

\* a build ended with pages written and pages failed
C18_Witness ==
  /\ bpc = "done"
  /\ success_count >= 2
  /\ error_count >= 2

(* --------------------------------------------- properties: serialize_page *)
\* a value made of digits, '.' and '-' only, with at most one '.', at most
\* one '-', and the '-' nowhere but in front
NumberShaped(v) ==
  /\ v # <<>>
  /\ \A i \in DOMAIN v : IsDigit(v[i]) \/ v[i] = "." \/ v[i] = "-"
  /\ Count(v, ".") <= 1
  /\ Count(v, "-") <= 1
  /\ \A i \in DOMAIN v : v[i] = "-" => i = 1

\* C17: serialize_page turns "true" / "false" into a boolean, leaves a value
\* that matches the date pattern a string, parses a number-shaped value as an
\* integer when it has no '.' and as a float when it has one, and leaves
\* every other value a string
C17_FrontMatterCoercion ==
  page_json # NoJson =>
    IF value = S_true \/ value = S_false
    THEN page_json = [kind |-> "bool", b |-> (value = S_true)]
    ELSE IF DateSearch(value) THEN page_json = JString(value)
    ELSE IF NumberShaped(value)
         THEN page_json.kind = IF Count(value, ".") = 0 THEN "int" ELSE "float"
         ELSE page_json = JString(value)

(* ------------------------------------------ TemplateEngine::render *)
max_attempts == 3
MaxRefs == 3

\* json values: null, a string, an object of keys to values
JNull == [t |-> "null"]
JStr == [t |-> "str"]
JObj(f) == [t |-> "obj", f |-> f]

Keys == {"a", "b"}

\* the contexts: an object whose keys a and b are absent, null, a string,
\* an empty object or an object with a string under a
JValues == {JNull, JStr, JObj(<<>>), JObj("a" :> JStr)}
Contexts == {JObj(f) : f \in UNION {[ks -> JValues] : ks \in SUBSET Keys}}

\* the variable paths of a template, the parts between the dots
RefPaths == {<<"a">>, <<"b">>, <<"a", "a">>, <<"a", "b">>, <<"b", "a">>, <<"b", "b">>}

\* a template is the sequence of what it evaluates: a variable at a path, or
\* an expression that fails for another reason than a missing variable
TVar(path) == [kind |-> "var", path |-> path]
TFail == [kind |-> "fail"]
Templates ==
  UNION {[1..n -> {TVar(q) : q \in RefPaths} \cup {TFail}] : n \in 0..MaxRefs}

\* the json pointer of a variable resolves: every part but the last is a key
\* of an object; a null under the last key counts as present
RECURSIVE Contains(_, _)
Contains(j, path) ==
  IF path = <<>> THEN TRUE
  ELSE /\ j.t = "obj"
       /\ Head(path) \in DOMAIN j.f
       /\ Contains(j.f[Head(path)], Tail(path))

\* env.render: the first expression that fails decides the exception; the
\* message of a missing variable is "variable '<path>' not found"
RECURSIVE RenderFrom(_, _, _)
RenderFrom(t, wd, i) ==
  IF i > Len(t) THEN [kind |-> "ok"]
  ELSE IF t[i].kind = "fail" THEN [kind |-> "other"]
  ELSE IF ~Contains(wd, t[i].path) THEN [kind |-> "missing", path |-> t[i].path]
  ELSE RenderFrom(t, wd, i + 1)

EnvRender(t, wd) == RenderFrom(t, wd, 1)

\* add_missing_path: at each part, a key that current does not contain is
\* assigned null (last part) or an empty object; operator[] with a key turns
\* a null into an object and throws type_error 305 on any other non-object
RECURSIVE add_missing_path(_, _)
add_missing_path(current, parts) ==
  IF parts = <<>> THEN current
  ELSE LET k == Head(parts)
           has == current.t = "obj" /\ k \in DOMAIN current.f
       IN IF ~has /\ current.t \notin {"obj", "null"} THEN Throw
          ELSE LET fresh == IF Len(parts) = 1 THEN JNull ELSE JObj(<<>>)
                   f0 == IF current.t = "obj" THEN current.f ELSE <<>>
                   f1 == IF has THEN f0 ELSE (k :> fresh) @@ f0
                   child == add_missing_path(f1[k], Tail(parts))
               IN IF child = Throw THEN Throw
                  ELSE JObj([f1 EXCEPT ![k] = child])

\* render is called with a template and a context; working_data is its copy
RetryInit ==
  /\ DevIdle
  /\ WsServing
  /\ sessions_ = {}
  /\ MinIdle
  /\ RenderIdle
  /\ SerIdle
  /\ BuildIdle
  /\ tmpl \in Templates
  /\ data \in Contexts
  /\ working_data = data
  /\ attempt = 0
  /\ tres = "running"
  /\ LateIdle

\* one iteration of the loop: env.render returns, or its exception is a
\* missing variable (the path is added to working_data, which may itself
\* throw out of the catch block, and the loop continues until attempt
\* reaches max_attempts), or the exception is rethrown as a render error
render_attempt ==
  /\ tres = "running"
  /\ attempt < max_attempts
  /\ LET r == EnvRender(tmpl, working_data)
     IN IF r.kind = "ok"
        THEN tres' = "returned" /\ UNCHANGED <<working_data, attempt>>
        ELSE IF r.kind = "other"
        THEN tres' = "failed_render_error" /\ UNCHANGED <<working_data, attempt>>
        ELSE LET wd == add_missing_path(working_data, r.path)
             IN IF wd = Throw
                THEN tres' = "failed_type_error" /\ UNCHANGED <<working_data, attempt>>
                ELSE /\ working_data' = wd
                     /\ attempt' = attempt + 1
                     /\ tres' = IF attempt + 1 < max_attempts THEN "running"
                                ELSE "failed_exhausted"
  /\ UNCHANGED <<devVars, wsRest, minVars, renderVars, serVars, buildVars, tmpl, data,
                 lateVars>>

RetryNext == render_attempt

SpecRetry == RetryInit /\ [][RetryNext]_vars

(* ------------------------------------------------ characters and texts *)
\* a text is a sequence of characters; is_whitespace, std::isalnum and
\* std::tolower in the C locale
WhitespaceChars == {" ", "\t", "\n", "\r"}
is_whitespace(c) == c \in WhitespaceChars

LowerChars ==
  {"a", "b", "c", "d", "e", "f", "g", "h", "i", "j", "k", "l", "m", "n",
   "o", "p", "q", "r", "s", "t", "u", "v", "w", "x", "y", "z"}
UpperChars ==
  {"A", "B", "C", "D", "E", "F", "G", "H", "I", "J", "K", "L", "M", "N",
   "O", "P", "Q", "R", "S", "T", "U", "V", "W", "X", "Y", "Z"}
DigitChars == {"0", "1", "2", "3", "4", "5", "6", "7", "8", "9"}
isalnum(c) == c \in LowerChars \cup UpperChars \cup DigitChars

LowerOf ==
  "A" :> "a" @@ "B" :> "b" @@ "C" :> "c" @@ "D" :> "d" @@ "E" :> "e" @@
  "F" :> "f" @@ "G" :> "g" @@ "H" :> "h" @@ "I" :> "i" @@ "J" :> "j" @@
  "K" :> "k" @@ "L" :> "l" @@ "M" :> "m" @@ "N" :> "n" @@ "O" :> "o" @@
  "P" :> "p" @@ "Q" :> "q" @@ "R" :> "r" @@ "S" :> "s" @@ "T" :> "t" @@
  "U" :> "u" @@ "V" :> "v" @@ "W" :> "w" @@ "X" :> "x" @@ "Y" :> "y" @@
  "Z" :> "z"
tolower(c) == IF c \in UpperChars THEN LowerOf[c] ELSE c

LastOf(t) == IF t = <<>> THEN NUL ELSE t[Len(t)]

\* the texts of at most n characters of an alphabet
TextsUpTo(alphabet, n) == UNION {[1..k -> alphabet] : k \in 0..n}

\* text.substr(from, n) == pattern, from counted from 1
StartsAt(text, from, pattern) ==
  /\ from + Len(pattern) - 1 <= Len(text)
  /\ SubSeq(text, from, from + Len(pattern) - 1) = pattern

\* text.find(pattern, from): the first position at or after from, 0 for npos
FindFrom(text, pattern, from) ==
  LET hits == {k \in from..Len(text) : StartsAt(text, k, pattern)}
  IN IF hits = {} THEN 0 ELSE CHOOSE k \in hits : \A m \in hits : k <= m

(* ------------------------------------------- HtmlMinifier::minify_js *)
MaxJsLen == 4

needs_space(last, next) ==
  IF isalnum(last) \/ last = "_" \/ last = "$"
  THEN isalnum(next) \/ next = "_" \/ next = "$"
  ELSE FALSE

\* the first position at or after from that holds no whitespace
SkipWhitespace(text, from) ==
  LET rest == {k \in from..Len(text) : ~is_whitespace(text[k])}
  IN IF rest = {} THEN Len(text) + 1 ELSE CHOOSE k \in rest : \A m \in rest : k <= m

\* the first position at or after from that holds a line end
LineEnd(text, from) ==
  LET rest == {k \in from..Len(text) : text[k] \in {"\n", "\r"}}
  IN IF rest = {} THEN Len(text) + 1 ELSE CHOOSE k \in rest : \A m \in rest : k <= m

JsStart == [result |-> <<>>, in_string |-> FALSE, in_single_quote |-> FALSE,
            in_template |-> FALSE, in_multi_comment |-> FALSE, prev |-> NUL]

\* the for loop from position i (counted from 1) in state s; a continue
\* leaves prev as it was, and the i++ of the loop follows every continue
RECURSIVE MinifyJsFrom(_, _, _)
MinifyJsFrom(j, i, s) ==
  IF i > Len(j) THEN s.result
  ELSE
    LET c == j[i]
        next == IF i + 1 <= Len(j) THEN j[i + 1] ELSE NUL
        quoted == s.in_string \/ s.in_single_quote \/ s.in_template
    IN IF ~quoted /\ ~s.in_multi_comment /\ next = "*" /\ c = "/"
       THEN MinifyJsFrom(j, i + 2, [s EXCEPT !.in_multi_comment = TRUE])
       ELSE IF s.in_multi_comment
       THEN IF c = "*" /\ next = "/"
            THEN MinifyJsFrom(j, i + 2, [s EXCEPT !.in_multi_comment = FALSE])
            ELSE MinifyJsFrom(j, i + 1, s)
       ELSE IF ~quoted /\ c = "/" /\ next = "/" /\ s.prev # ":" /\ s.prev # "h"
       THEN MinifyJsFrom(j, LineEnd(j, i) + 1, s)
       ELSE
         LET s2 ==
               IF ~s.in_single_quote /\ ~s.in_template /\ c = "\"" /\ s.prev # "\\"
               THEN [s EXCEPT !.in_string = ~s.in_string,
                              !.result = Append(s.result, c)]
               ELSE IF ~s.in_string /\ ~s.in_template /\ c = "'" /\ s.prev # "\\"
               THEN [s EXCEPT !.in_single_quote = ~s.in_single_quote,
                              !.result = Append(s.result, c)]
               ELSE IF ~s.in_string /\ ~s.in_single_quote /\ c = Backtick /\ s.prev # "\\"
               THEN [s EXCEPT !.in_template = ~s.in_template,
                              !.result = Append(s.result, c)]
               ELSE IF quoted
               THEN [s EXCEPT !.result = Append(s.result, c)]
               ELSE IF is_whitespace(c)
               THEN IF /\ s.result # <<>>
                       /\ ~is_whitespace(LastOf(s.result))
                       /\ SkipWhitespace(j, i) <= Len(j)
                       /\ needs_space(LastOf(s.result), j[SkipWhitespace(j, i)])
                    THEN [s EXCEPT !.result = Append(s.result, " ")]
                    ELSE s
               ELSE [s EXCEPT !.result = Append(s.result, c)]
         IN MinifyJsFrom(j, i + 1, [s2 EXCEPT !.prev = c])

MinifyJs(j) == MinifyJsFrom(j, 1, JsStart)

\* scripts: what can stand between two tokens, string literals, and what is
\* built from them, next to every short text of a small alphabet
JsSeparators ==
  {<<" ">>, <<"\n">>, <<" ", " ">>, <<"\t">>,
   <<"/", "*", "*", "/">>, <<"/", "*", "x", "*", "/">>,
   <<" ", "/", "*", "*", "/">>, <<"/", "*", "*", "/", " ">>,
   <<" ", "/", "*", "*", "/", " ">>,
   <<"/", "/", "\n">>, <<"/", "/", "x", "\n">>, <<" ", "/", "/", "x", "\n">>}
JsIdentChars == {"a", "1", "_", "$"}
JsLiterals ==
  {<<"\"", "\"">>, <<"\"", "a", " ", " ", "b", "\"">>, <<"'", "a", " ", " ", "b", "'">>,
   <<Backtick, "a", "\n", " ", "b", Backtick>>, <<"\"", "/", "*", " ", "*", "/", "\"">>,
   <<"\"", "/", "/", " ", "a", "\"">>, <<"\"", "a", "\\", "\"", " ", " ", "b", "\"">>,
   <<"\"", "a", "\\", "\\", "\"">>}
JsAlphabet == {"a", " ", "\n", "/", "*", "\""}
JsInputs ==
  {<<x>> \o sep \o <<y>> : x \in JsIdentChars, y \in JsIdentChars, sep \in JsSeparators}
    \cup JsLiterals
    \cup {l1 \o <<"+">> \o l2 : l1 \in JsLiterals, l2 \in JsLiterals}
    \cup TextsUpTo(JsAlphabet, MaxJsLen)

JsInit ==
  /\ DevIdle
  /\ WsServing
  /\ sessions_ = {}
  /\ MinIdle
  /\ RenderIdle
  /\ SerIdle
  /\ BuildIdle
  /\ RetryIdle
  /\ js \in JsInputs
  /\ result = NoText
  /\ HtmlIdle
  /\ InjectIdle
  /\ FlagIdle
  /\ SessIdle
  /\ FrontIdle

minify_js ==
  /\ result = NoText
  /\ result' = MinifyJs(js)
  /\ UNCHANGED <<devVars, wsRest, minVars, renderVars, serVars, buildVars, retryVars,
                 js, htmlVars, injectVars, has_error_page, sessVars, frontVars>>

JsNext == minify_js

SpecJs == JsInit /\ [][JsNext]_vars

(* --------------------------------------------- HtmlMinifier::minify *)
MaxHtmlLen == 4

CommentOpen == <<"<", "!", "-", "-">>
CommentClose == <<"-", "-", ">">>
EndifText == <<"<", "!", "[", "e", "n", "d", "i", "f", "]">>
DoctypeText == <<"<", "!", "D", "O", "C", "T", "Y", "P", "E">>
ScriptTag == <<"s", "c", "r", "i", "p", "t">>
StyleTag == <<"s", "t", "y", "l", "e">>
ScriptClose == <<"<", "/", "s", "c", "r", "i", "p", "t", ">">>
StyleClose == <<"<", "/", "s", "t", "y", "l", "e", ">">>

inline_elements ==
  {<<"a">>, <<"s", "p", "a", "n">>, <<"s", "t", "r", "o", "n", "g">>,
   <<"e", "m">>, <<"b">>, <<"i">>, <<"u">>, <<"s", "m", "a", "l", "l">>,
   <<"c", "o", "d", "e">>, <<"a", "b", "b", "r">>, <<"c", "i", "t", "e">>,
   <<"k", "b", "d">>, <<"m", "a", "r", "k">>, <<"q">>, <<"s">>,
   <<"s", "u", "b">>, <<"s", "u", "p">>, <<"t", "i", "m", "e">>,
   <<"v", "a", "r">>, <<"b", "u", "t", "t", "o", "n">>,
   <<"l", "a", "b", "e", "l">>}
is_inline(tag) == tag \in inline_elements

void_tags ==
  {<<"a", "r", "e", "a">>, <<"b", "a", "s", "e">>, <<"b", "r">>,
   <<"c", "o", "l">>, <<"e", "m", "b", "e", "d">>, <<"h", "r">>,
   <<"i", "m", "g">>, <<"i", "n", "p", "u", "t">>, <<"l", "i", "n", "k">>,
   <<"m", "e", "t", "a">>, <<"p", "a", "r", "a", "m">>,
   <<"s", "o", "u", "r", "c", "e">>, <<"t", "r", "a", "c", "k">>,
   <<"w", "b", "r">>}

should_preserve_whitespace(tag) ==
  tag = <<"p", "r", "e">> \/ tag = <<"t", "e", "x", "t", "a", "r", "e", "a">>

in_preserve_whitespace_tag(stack) ==
  \E k \in DOMAIN stack : should_preserve_whitespace(stack[k])

remove_trailing_space(out) ==
  IF out # <<>> /\ out[Len(out)] = " " THEN SubSeq(out, 1, Len(out) - 1) ELSE out

\* pop_back when the top of the stack is the tag
PopIfTop(stack, tag) ==
  IF stack # <<>> /\ stack[Len(stack)] = tag
  THEN SubSeq(stack, 1, Len(stack) - 1) ELSE stack

\* where the tag name that starts at from ends: whitespace, '>' or '/'
NameEnd(text, from) ==
  LET stops == {k \in from..Len(text) :
                  is_whitespace(text[k]) \/ text[k] = ">" \/ text[k] = "/"}
  IN IF stops = {} THEN Len(text) + 1 ELSE CHOOSE k \in stops : \A m \in stops : k <= m

\* a script or style content without its leading and trailing whitespace
Trim(text) ==
  LET solid == {k \in 1..Len(text) : ~is_whitespace(text[k])}
  IN IF solid = {} THEN <<>>
     ELSE SubSeq(text, CHOOSE k \in solid : \A m \in solid : k <= m,
                       CHOOSE k \in solid : \A m \in solid : k >= m)

\* the documents: conditional and ordinary comments, alone and in pairs,
\* tags with quoted attribute values, text with whitespace in block, inline
\* and pre elements, and every short text of a small alphabet
CondComments ==
  {<<"<", "!", "-", "-", "[", "i", "f", " ", "I", "E", "]", ">", "x", "<", "!", "[", "e", "n", "d", "i", "f", "]", "-", "-", ">">>,
   <<"<", "!", "-", "-", "[", "i", "f", " ", "I", "E", "]", ">", " ", " ", "x", "<", "!", "[", "e", "n", "d", "i", "f", "]", "-", "-", ">">>,
   <<"<", "!", "-", "-", "[", "i", "f", " ", "I", "E", "]", ">", "<", "p", ">", "x", " ", "y", "<", "/", "p", ">", "<", "!", "[", "e", "n", "d", "i", "f", "]", "-", "-", ">">>}
OrdComments ==
  {<<"<", "!", "-", "-", "c", "-", "-", ">">>,
   <<"<", "!", "-", "-", " ", "c", " ", " ", "c", " ", "-", "-", ">">>,
   <<"<", "!", "-", "-", "[", "c", "]", "-", "-", ">">>}
CommentDocs ==
  {c1 \o c2 : c1 \in CondComments \cup OrdComments \cup {<<>>},
              c2 \in CondComments \cup OrdComments \cup {<<>>}}
HtmlExamples ==
  {<<"<", "!", "D", "O", "C", "T", "Y", "P", "E", " ", "h", "t", "m", "l", ">", "<", "p", ">", "x", "<", "/", "p", ">">>,
   <<"<", "s", "c", "r", "i", "p", "t", ">", " ", "a", " ", " ", "b", " ", "<", "/", "s", "c", "r", "i", "p", "t", ">">>,
   <<"<", "s", "t", "y", "l", "e", ">", " ", "a", " ", " ", "b", " ", "<", "/", "s", "t", "y", "l", "e", ">">>,
   <<"<", "b", "r", ">", "<", "b", "r", "/", ">">>,
   <<"<", "b", ">", "a", " ", "<", "!", "-", "-", "[", "i", "f", " ", "I", "E", "]", ">", "x", "<", "!", "[", "e", "n", "d", "i", "f", "]", "-", "-", ">", "<", "/", "b", ">">>,
   <<"a", " ", "<", "!", "-", "-", "c", "-", "-", ">", " ", "b">>,
   <<"<", "a", " ", "t", "=", "\"", "x", "/", ">", "y", "\"", ">">>,
   <<"<", "a", " ", "t", "=", "\"", "x", ">", "y", " ", " ", "z", "\"", ">">>,
   <<"<", "a", " ", "t", "=", "\"", "x", " ", " ", "y", "\"", " ", ">">>,
   <<"<", "a", " ", "t", "=", "'", "x", " ", "\"", "y", "'", ">">>,
   <<"<", "A", " ", " ", "t", "=", "x", ">">>,
   <<"<", "p", ">", "a", " ", " ", "b", "<", "/", "p", ">">>,
   <<"<", "p", ">", "a", " ", ".", "<", "/", "p", ">">>,
   <<"<", "b", ">", "a", " ", ".", "<", "/", "b", ">">>,
   <<"<", "b", ">", "<", "p", ">", "a", " ", ".", "<", "/", "p", ">", "<", "/", "b", ">">>,
   <<"<", "b", ">", " ", "x", "<", "/", "b", ">">>,
   <<"<", "p", "r", "e", ">", "a", " ", " ", "b", "<", "/", "p", "r", "e", ">">>,
   <<"<", "b", ">", "a", " ", "<", "i", ">", "c", "<", "/", "i", ">", "<", "/", "b", ">">>,
   <<"<", "p", ">", "a", "\n", " ", "b", "<", "/", "p", ">">>}
HtmlAlphabet == {"<", ">", "/", "a", " ", "\"", "."}
HtmlInputs ==
  CommentDocs \cup HtmlExamples \cup TextsUpTo(HtmlAlphabet, MaxHtmlLen)

\* the options of a call: the two that decide comments and whitespace are
\* free, inline scripts are minified and inline styles are not
HtmlOptions ==
  {[remove_comments |-> rc, collapse_whitespace |-> cw,
    minify_inline_css |-> FALSE, minify_inline_js |-> TRUE] :
     rc \in BOOLEAN, cw \in BOOLEAN}

HtmlInit ==
  /\ DevIdle
  /\ WsServing
  /\ sessions_ = {}
  /\ MinIdle
  /\ RenderIdle
  /\ SerIdle
  /\ BuildIdle
  /\ RetryIdle
  /\ JsIdle
  /\ InjectIdle
  /\ FlagIdle
  /\ SessIdle
  /\ FrontIdle
  /\ html \in HtmlInputs
  /\ opts \in HtmlOptions
  /\ mstep = "scan"
  /\ mpos = 1
  /\ output = <<>>
  /\ tag_stack = <<>>
  /\ pending_space = FALSE
  /\ current_tag = <<>>
  /\ is_closing = FALSE
  /\ in_attr_value = FALSE
  /\ quote_char = NUL
  /\ last_was_space = FALSE

htmlRest == <<devVars, wsRest, minVars, renderVars, serVars, buildVars, retryVars,
              jsVars, injectVars, has_error_page, sessVars, frontVars,
              html, opts>>

\* the first test of the loop: a comment that has an end, comments removed
AtComment ==
  /\ opts.remove_comments
  /\ StartsAt(html, mpos, CommentOpen)
  /\ FindFrom(html, CommentClose, mpos + 4) # 0

\* the second test: a doctype that has an end
AtDoctype ==
  /\ ~AtComment
  /\ StartsAt(html, mpos, DoctypeText)
  /\ FindFrom(html, <<">">>, mpos) # 0

\* a comment: one that starts with "<!--[" and has "<![endif]" less than 20
\* characters after its "-->" is copied up to and including the character
\* after "<![endif]"; any other is skipped
minify_Comment ==
  /\ mstep = "scan"
  /\ mpos <= Len(html)
  /\ AtComment
  /\ LET end == FindFrom(html, CommentClose, mpos + 4)
         conditional_end == FindFrom(html, EndifText, mpos)
         upto == IF conditional_end + 9 <= Len(html)
                 THEN conditional_end + 9 ELSE Len(html)
     IN IF /\ mpos + 4 < Len(html)
           /\ html[mpos + 4] = "["
           /\ conditional_end # 0
           /\ conditional_end < end + 20
        THEN /\ output' = output \o SubSeq(html, mpos, upto)
             /\ mpos' = upto + 1
             /\ UNCHANGED pending_space
        ELSE /\ mpos' = end + 3
             /\ pending_space' = FALSE
             /\ UNCHANGED output
  /\ UNCHANGED <<htmlRest, mstep, tag_stack, current_tag, is_closing,
                 in_attr_value, quote_char, last_was_space>>

minify_Doctype ==
  /\ mstep = "scan"
  /\ mpos <= Len(html)
  /\ AtDoctype
  /\ LET end == FindFrom(html, <<">">>, mpos)
     IN /\ output' = output \o SubSeq(html, mpos, end)
        /\ mpos' = end + 1
  /\ pending_space' = FALSE
  /\ UNCHANGED <<htmlRest, mstep, tag_stack, current_tag, is_closing,
                 in_attr_value, quote_char, last_was_space>>

\* '<': the tag name is copied and lowercased into current_tag; a closing
\* tag pops the stack when it matches the top, an opening tag that is not a
\* void tag is pushed; then the attribute loop starts
minify_TagOpen ==
  /\ mstep = "scan"
  /\ mpos <= Len(html)
  /\ ~AtComment
  /\ ~AtDoctype
  /\ html[mpos] = "<"
  /\ LET closing == mpos + 1 <= Len(html) /\ html[mpos + 1] = "/"
         from == IF closing THEN mpos + 2 ELSE mpos + 1
         upto == NameEnd(html, from)
         name == SubSeq(html, from, upto - 1)
         tag == [k \in 1..Len(name) |-> tolower(name[k])]
     IN /\ is_closing' = closing
        /\ current_tag' = tag
        /\ output' = output \o (IF closing THEN <<"<", "/">> ELSE <<"<">>) \o name
        /\ mpos' = upto
        /\ tag_stack' = IF closing THEN PopIfTop(tag_stack, tag)
                        ELSE IF tag \in void_tags THEN tag_stack
                        ELSE Append(tag_stack, tag)
  /\ pending_space' = FALSE
  /\ in_attr_value' = FALSE
  /\ quote_char' = NUL
  /\ last_was_space' = FALSE
  /\ mstep' = "attrs"
  /\ UNCHANGED htmlRest

\* one character of the attribute loop; "/>" is tested first and leaves
\* the loop
minify_Attr ==
  /\ mstep = "attrs"
  /\ mpos <= Len(html)
  /\ html[mpos] # ">"
  /\ LET ch == html[mpos]
     IN IF ch = "/" /\ mpos + 1 <= Len(html) /\ html[mpos + 1] = ">"
        THEN /\ tag_stack' = PopIfTop(tag_stack, current_tag)
             /\ output' = remove_trailing_space(output) \o <<"/", ">">>
             /\ mpos' = mpos + 2
             /\ mstep' = "after"
             /\ UNCHANGED <<in_attr_value, quote_char, last_was_space>>
        ELSE /\ mpos' = mpos + 1
             /\ UNCHANGED <<tag_stack, mstep>>
             /\ IF ~in_attr_value /\ (ch = "\"" \/ ch = "'")
                THEN /\ in_attr_value' = TRUE
                     /\ quote_char' = ch
                     /\ output' = Append(output, ch)
                     /\ last_was_space' = FALSE
                ELSE IF in_attr_value /\ ch = quote_char
                THEN /\ in_attr_value' = FALSE
                     /\ quote_char' = NUL
                     /\ output' = Append(output, ch)
                     /\ last_was_space' = FALSE
                ELSE IF in_attr_value
                THEN /\ output' = Append(output, ch)
                     /\ last_was_space' = FALSE
                     /\ UNCHANGED <<in_attr_value, quote_char>>
                ELSE IF opts.collapse_whitespace /\ is_whitespace(ch)
                THEN /\ output' = IF last_was_space THEN output ELSE Append(output, " ")
                     /\ last_was_space' = TRUE
                     /\ UNCHANGED <<in_attr_value, quote_char>>
                ELSE /\ output' = Append(output, ch)
                     /\ last_was_space' = FALSE
                     /\ UNCHANGED <<in_attr_value, quote_char>>
  /\ UNCHANGED <<htmlRest, pending_space, current_tag, is_closing>>

\* after the attribute loop: a '>' here closes the tag, and the content of
\* a script or style element that has its closing tag is trimmed, a script
\* minified, and copied in one piece; the locals of the tag are gone
minify_TagEnd ==
  /\ \/ mstep = "attrs" /\ (IF mpos > Len(html) THEN TRUE ELSE html[mpos] = ">")
     \/ mstep = "after"
  /\ IF mpos <= Len(html) /\ html[mpos] = ">"
     THEN LET out == Append(remove_trailing_space(output), ">")
              script_end == FindFrom(html, ScriptClose, mpos + 1)
              style_end == FindFrom(html, StyleClose, mpos + 1)
              script_content == Trim(SubSeq(html, mpos + 1, script_end - 1))
              style_content == Trim(SubSeq(html, mpos + 1, style_end - 1))
          IN IF ~is_closing /\ current_tag = ScriptTag /\ script_end # 0
             THEN /\ output' = out \o (IF opts.minify_inline_js /\ script_content # <<>>
                                       THEN MinifyJs(script_content)
                                       ELSE script_content)
                  /\ mpos' = script_end
             ELSE IF ~is_closing /\ current_tag = StyleTag /\ style_end # 0
             THEN /\ output' = out \o style_content
                  /\ mpos' = style_end
             ELSE /\ output' = out
                  /\ mpos' = mpos + 1
     ELSE UNCHANGED <<output, mpos>>
  /\ mstep' = "scan"
  /\ is_closing' = FALSE
  /\ in_attr_value' = FALSE
  /\ quote_char' = NUL
  /\ last_was_space' = FALSE
  /\ UNCHANGED <<htmlRest, tag_stack, pending_space, current_tag>>

\* a character of text: copied inside pre or textarea; whitespace is held
\* back as pending_space; before any other character the pending space is
\* written when the output does not end in '<' or '>' and either some open
\* element is inline or both neighbours are alphanumeric
minify_Text ==
  /\ mstep = "scan"
  /\ mpos <= Len(html)
  /\ ~AtComment
  /\ ~AtDoctype
  /\ html[mpos] # "<"
  /\ LET c == html[mpos]
         prev == LastOf(output)
         in_inline == \E k \in DOMAIN tag_stack : is_inline(tag_stack[k])
     IN IF in_preserve_whitespace_tag(tag_stack)
        THEN output' = Append(output, c) /\ UNCHANGED pending_space
        ELSE IF opts.collapse_whitespace /\ is_whitespace(c)
        THEN pending_space' = TRUE /\ UNCHANGED output
        ELSE /\ pending_space' = FALSE
             /\ output' =
                  IF /\ pending_space /\ prev # NUL /\ prev # ">" /\ prev # "<"
                     /\ (in_inline \/ (isalnum(prev) /\ isalnum(c)))
                  THEN output \o <<" ", c>>
                  ELSE Append(output, c)
  /\ mpos' = mpos + 1
  /\ UNCHANGED <<htmlRest, mstep, tag_stack, current_tag, is_closing,
                 in_attr_value, quote_char, last_was_space>>

\* the end of the text: output.str() is returned
minify_Finish ==
  /\ mstep = "scan"
  /\ mpos > Len(html)
  /\ mstep' = "done"
  /\ UNCHANGED <<htmlRest, mpos, output, tag_stack, pending_space, current_tag,
                 is_closing, in_attr_value, quote_char, last_was_space>>

HtmlNext ==
  \/ minify_Comment
  \/ minify_Doctype
  \/ minify_TagOpen
  \/ minify_Attr
  \/ minify_TagEnd
  \/ minify_Text
  \/ minify_Finish

SpecHtml == HtmlInit /\ [][HtmlNext]_vars

(* ------------------------------------ render_page on the page text *)
MaxDocLen == 2

\* a document is a sequence of pieces of markup; the pieces that matter are
\* the closing head tag, the placeholder of the content in a template and
\* the live-reload script tag of inject_dev_scripts
HeadClose == "</head>"
ContentVar == "{{ content }}"
dev_script == "<script defer src=\"/livereload.js\"></script>"

\* html.find("</head>"): the first position, 0 for npos
FindHead(doc) ==
  LET hits == {k \in 1..Len(doc) : doc[k] = HeadClose}
  IN IF hits = {} THEN 0 ELSE CHOOSE k \in hits : \A m \in hits : k <= m

inject_dev_scripts(doc) ==
  LET head_close == FindHead(doc)
  IN IF head_close # 0
     THEN SubSeq(doc, 1, head_close - 1) \o <<dev_script>> \o
          SubSeq(doc, head_close, Len(doc))
     ELSE Append(doc, dev_script)

\* template_engine.render of a template whose only variable is the content
RECURSIVE Substitute(_, _)
Substitute(template, content) ==
  IF template = <<>> THEN <<>>
  ELSE (IF Head(template) = ContentVar THEN content ELSE <<Head(template)>>)
         \o Substitute(Tail(template), content)

apply_base_template(content, base, dev) ==
  IF base = <<>> THEN content
  ELSE LET out == Substitute(base, content)
       IN IF dev THEN inject_dev_scripts(out) ELSE out

\* render_page of a page that has no content template
RenderText(p, base, dev) ==
  IF ~p.needs_template THEN p.html_content
  ELSE apply_base_template(p.html_content, base, dev)

\* base.html: absent, with a head, without one, with two closing head tags
BaseTexts ==
  {<<>>,
   <<"<head>", HeadClose, "<body>", ContentVar>>,
   <<"<body>", ContentVar>>,
   <<"<head>", HeadClose, ContentVar, HeadClose>>}
PageTexts == TextsUpTo({"x", HeadClose, "<html>"}, MaxDocLen)

\* discover_content: a page is standalone when its text holds "<html"
PageInfos ==
  {[needs_template |-> "<html>" \notin {t[k] : k \in DOMAIN t}, html_content |-> t] :
     t \in PageTexts}

InjectInit ==
  /\ DevIdle
  /\ WsServing
  /\ sessions_ = {}
  /\ MinIdle
  /\ RenderIdle
  /\ SerIdle
  /\ BuildIdle
  /\ RetryIdle
  /\ JsIdle
  /\ HtmlIdle
  /\ FlagIdle
  /\ SessIdle
  /\ FrontIdle
  /\ is_dev_mode \in BOOLEAN
  /\ ipage \in PageInfos
  /\ base_text \in BaseTexts
  /\ rendered = NoText

render_page_Text ==
  /\ rendered = NoText
  /\ rendered' = RenderText(ipage, base_text, is_dev_mode)
  /\ UNCHANGED <<devVars, wsRest, minVars, renderVars, serVars, buildVars, retryVars,
                 jsVars, htmlVars, is_dev_mode, ipage, base_text, has_error_page,
                 sessVars, frontVars>>

InjectNext == render_page_Text

SpecInject == InjectInit /\ [][InjectNext]_vars

(* ------------------------------------------- the error-page flag *)
MaxDiscover == 3

FlagFiles == Files \cup {F_404}

\* page.url as the text the code compares: "/" and the segments
RECURSIVE UrlText(_)
UrlText(u) ==
  IF u = <<>> THEN <<"/">>
  ELSE IF Len(u) = 1 THEN <<"/", u[1]>>
  ELSE <<"/", u[1]>> \o UrlText(Tail(u))

\* page.url == "404"
IsErrorUrl(u) == UrlText(u) = <<"404">>

\* a constructed SiteBuilder before its first discover_content; the
\* constructor does not initialise has_error_page
FlagInit ==
  /\ disk \in [FlagFiles -> {"ok", "absent"}]
  /\ baseTpl = "ok"
  /\ base_template = "ok"
  /\ now = 1
  /\ version = 1
  /\ gen = 0
  /\ pages = <<>>
  /\ collections = <<>>
  /\ listing = {}
  /\ writer = FALSE
  /\ readers = 0
  /\ events = <<>>
  /\ delivered = 0
  /\ wpc = "idle"
  /\ wev = NoEvent
  /\ wscan = {}
  /\ wprev = 1
  /\ wdisc = 0
  /\ wbc = 0
  /\ wmsg = NoMsg
  /\ failedBefore = FALSE
  /\ hpc = "idle"
  /\ hreq = NoUrl
  /\ hptr = NoPtr
  /\ hstatus = 0
  /\ hbody = NoBody
  /\ sessions_ = {}
  /\ WsServing
  /\ MinIdle
  /\ RenderIdle
  /\ SerIdle
  /\ BuildIdle
  /\ RetryIdle
  /\ JsIdle
  /\ HtmlIdle
  /\ InjectIdle
  /\ SessIdle
  /\ FrontIdle
  /\ has_error_page \in BOOLEAN

flagRest == <<baseTpl, base_template, now, version, writer, readers, events,
              delivered, watchVars, httpVars, sessions_, wsRest, minVars,
              renderVars, serVars, buildVars, retryVars, jsVars, htmlVars,
              injectVars, sessVars, frontVars>>

\* a content file is added or removed between two discoveries
FlagEdit(f, st) ==
  /\ disk[f] # st
  /\ disk' = [disk EXCEPT ![f] = st]
  /\ UNCHANGED <<flagRest, pages, collections, listing, gen, has_error_page>>

\* one whole discover_content over readable files: the maps are cleared and
\* refilled, the flag is set for a page whose url is "404", collections are
\* rebuilt
discover_content ==
  /\ gen < MaxDiscover
  /\ LET found == {f \in FlagFiles : disk[f] = "ok"}
         pg == ScanAll(found, gen + 1, <<>>)
     IN /\ pages' = pg
        /\ listing' = found
        /\ collections' \in BuildCollections(pg)
        /\ has_error_page' = IF \E u \in DOMAIN pg : IsErrorUrl(pg[u].url)
                             THEN TRUE ELSE has_error_page
  /\ gen' = gen + 1
  /\ UNCHANGED <<flagRest, disk>>

FlagNext ==
  \/ \E f \in FlagFiles, st \in {"ok", "absent"} : FlagEdit(f, st)
  \/ discover_content

SpecFlag == FlagInit /\ [][FlagNext]_vars

(* --------------------------------- the hot reload of the base template *)
\* the watcher thread is in handleFileAction for a change under templates/
\* and base.html exists: reload_base_template assigns base_template; it
\* takes no lock, so the HTTP thread runs on while the assignment is made
reload_base_template_Begin ==
  /\ wpc = "idle"
  /\ base_template # Torn
  /\ wpc' = "reload"
  /\ base_template' = Torn
  /\ UNCHANGED <<wsRest, minVars, auxVars, diskVars, now, version, snapVars, events,
                 delivered, wev, wscan, wprev, wdisc, wbc, wmsg, failedBefore,
                 httpVars, sessions_>>

\* the assignment is complete
reload_base_template_End ==
  /\ wpc = "reload"
  /\ wpc' = "idle"
  /\ base_template' = Reloaded
  /\ UNCHANGED <<wsRest, minVars, auxVars, diskVars, now, version, snapVars, events,
                 delivered, wev, wscan, wprev, wdisc, wbc, wmsg, failedBefore,
                 httpVars, sessions_>>

ReloadInit == HttpInit

ReloadNext ==
  \/ HttpNext
  \/ reload_base_template_Begin
  \/ reload_base_template_End

SpecReload == ReloadInit /\ [][ReloadNext]_vars

(* ------------------------------------- WebSocketSession: the send queue *)
MaxSends == 6

\* the messages of one run, numbered in the order of the send() calls
Messages == 1..MaxSends

SessInit ==
  /\ DevIdle
  /\ WsServing
  /\ sessions_ = {}
  /\ MinIdle
  /\ RenderIdle
  /\ SerIdle
  /\ BuildIdle
  /\ RetryIdle
  /\ JsIdle
  /\ HtmlIdle
  /\ InjectIdle
  /\ FlagIdle
  /\ SessIdle
  /\ FrontIdle

sessRest == <<devVars, wsRest, minVars, renderVars, serVars, buildVars, retryVars,
              jsVars, htmlVars, injectVars, has_error_page, frontVars>>

\* send(message): net::post of the lambda to the executor of the stream
send ==
  /\ nsend < MaxSends
  /\ nsend' = nsend + 1
  /\ handlers' = Append(handlers, nsend + 1)
  /\ UNCHANGED <<sessRest, queue_, inflight, written, write_failed>>

\* the executor runs the oldest posted lambda: push_back, and do_write when
\* the queue now holds one message; do_write starts async_write of front()
send_Lambda ==
  /\ handlers # <<>>
  /\ handlers' = Tail(handlers)
  /\ queue_' = Append(queue_, Head(handlers))
  /\ inflight' = IF Len(queue_) = 0 THEN Append(inflight, Head(handlers))
                 ELSE inflight
  /\ UNCHANGED <<sessRest, written, write_failed, nsend>>

\* on_write(ec, bytes): with an error a log line and return; else the front
\* is erased and do_write is called when the queue is not empty
on_write(ec) ==
  /\ inflight # <<>>
  /\ IF ec
     THEN /\ write_failed' = write_failed \cup {Head(inflight)}
          /\ inflight' = Tail(inflight)
          /\ UNCHANGED <<queue_, written>>
     ELSE /\ written' = Append(written, Head(inflight))
          /\ queue_' = Tail(queue_)
          /\ inflight' = IF Tail(queue_) # <<>>
                         THEN Append(Tail(inflight), Head(Tail(queue_)))
                         ELSE Tail(inflight)
          /\ UNCHANGED write_failed
  /\ UNCHANGED <<sessRest, handlers, nsend>>

SessNext ==
  \/ send
  \/ send_Lambda
  \/ \E ec \in BOOLEAN : on_write(ec)

SpecSession == SessInit /\ [][SessNext]_vars

\* the executor runs a posted lambda, and an asynchronous write completes,
\* with or without an error
SpecSessionFair ==
  /\ SpecSession
  /\ WF_vars(send_Lambda)
  /\ WF_vars(\E ec \in BOOLEAN : on_write(ec))

(* ------------------------------------------------- FrontMatter::parse *)
MaxFrontLen == 6

Dashes == <<"-", "-", "-">>
CloseLine == <<"\n", "-", "-", "-", "\n">>
CloseMark == <<"\n", "-", "-", "-">>

\* what parse hands back: the text given to YAML::Load (empty for an empty
\* FrontMatter) and the body
Returned(yaml_str, markdown) ==
  [outcome |-> "returned", front |-> yaml_str, body |-> markdown]

\* content.substr(end_pos + 5) with end_pos + 5 > content.size()
OutOfRange == [outcome |-> "out_of_range", front |-> <<>>, body |-> <<>>]

\* FrontMatter::parse(content), positions counted from 1
parse(content) ==
  IF ~StartsAt(content, 1, Dashes)
  THEN Returned(<<>>, content)
  ELSE LET first == FindFrom(content, CloseLine, 4)
           end_pos == IF first # 0 THEN first ELSE FindFrom(content, CloseMark, 4)
       IN IF end_pos = 0
          THEN Returned(<<>>, content)
          ELSE IF end_pos + 4 > Len(content)
               THEN OutOfRange
               ELSE Returned(SubSeq(content, 4, end_pos - 1),
                             SubSeq(content, end_pos + 5, Len(content)))

FrontAlphabet == {"-", "\n", "a"}

FrontInputs ==
  TextsUpTo(FrontAlphabet, MaxFrontLen)
    \cup {Dashes \o t : t \in TextsUpTo(FrontAlphabet, MaxFrontLen)}

FrontInit ==
  /\ DevIdle
  /\ WsServing
  /\ sessions_ = {}
  /\ MinIdle
  /\ RenderIdle
  /\ SerIdle
  /\ BuildIdle
  /\ RetryIdle
  /\ JsIdle
  /\ HtmlIdle
  /\ InjectIdle
  /\ FlagIdle
  /\ SessIdle
  /\ raw_content \in FrontInputs
  /\ parse_result = NotParsed

\* SiteBuilder::process_file: auto [parsed_fm, body] = FrontMatter::parse(raw_content)
process_file_Parse ==
  /\ parse_result = NotParsed
  /\ raw_content # NoText
  /\ parse_result' = parse(raw_content)
  /\ UNCHANGED <<devVars, wsRest, minVars, renderVars, serVars, buildVars, retryVars,
                 jsVars, htmlVars, injectVars, has_error_page, sessVars, raw_content>>

FrontNext == process_file_Parse

SpecFront == FrontInit /\ [][FrontNext]_vars

(* ------------------------------------------- properties: the 404 fallback *)
\* C19: a request for a path that is no url of the snapshot is answered
\* with status 404 and the rendered /404 page when there is one, else the
\* inline fallback, and no failure of the render leaves the handler
C19_NotFoundAlwaysAnswered ==
  /\ hpc # "escaped"
  /\ (hpc = "respond" /\ hreq \notin DOMAIN pages) =>
       /\ hstatus = 404
       /\ hbody = IF <<"404">> \in DOMAIN pages
                  THEN PageBody(RenderPage(pages[<<"404">>], tplFile, base_template,
                                           version, collections))
                  ELSE Inline404(hreq)

(* --------------------------------------- properties: the render retry loop *)
\* the value under a path that resolves
RECURSIVE ValueAt(_, _)
ValueAt(j, path) ==
  IF path = <<>> THEN j ELSE ValueAt(j.f[Head(path)], Tail(path))

\* C20: render makes at most 3 attempts; after a missing-variable failure
\* naming path P it puts null at P in its working copy and retries (or has
\* used up its attempts); any other failure fails at once; the call ends and
\* the caller's context is never changed
C20_BoundedRetry ==
  [][/\ data' = data
     /\ attempt' <= max_attempts
     /\ tres' = "running" => attempt' < max_attempts
     /\ (tres = "running" /\ EnvRender(tmpl, working_data).kind = "missing") =>
          /\ attempt' = attempt + 1
          /\ tres' = IF attempt' < max_attempts THEN "running" ELSE "failed_exhausted"
          /\ Contains(working_data', EnvRender(tmpl, working_data).path)
          /\ ValueAt(working_data', EnvRender(tmpl, working_data).path) = JNull
     /\ (tres = "running" /\ EnvRender(tmpl, working_data).kind = "other") =>
          tres' = "failed_render_error"
     /\ (tres = "running" /\ EnvRender(tmpl, working_data).kind = "ok") =>
          tres' = "returned"]_vars

(* ------------------------------------- properties: the inline JS minifier *)
\* C24: two identifier characters that whitespace, a line comment or a
\* block comment keeps apart in the script are not next to each other in
\* the result, and string and template literals come out unchanged
C24_NoFusedIdentifiers ==
  result # NoText =>
    /\ \A x \in JsIdentChars, y \in JsIdentChars, sep \in JsSeparators :
         js = <<x>> \o sep \o <<y>> => result # <<x, y>>
    /\ js \in JsLiterals => result = js
    /\ \A l1 \in JsLiterals, l2 \in JsLiterals :
         js = l1 \o <<"+">> \o l2 => result = js

(* -------------------------------------- properties: the HTML minifier *)
\* what the stated rule keeps of a comment: a conditional comment whole, an
\* ordinary comment nothing
KeptOf(c) == IF c \in CondComments THEN c ELSE <<>>

\* C21: of a document made of comments, a minify with comment removal
\* returns the conditional comments unchanged and nothing of the ordinary
\* ones; without comment removal the conditional comments are returned
\* unchanged as well
C21_ConditionalCommentsKept ==
  mstep = "done" =>
    \A c1 \in CondComments \cup OrdComments \cup {<<>>},
       c2 \in CondComments \cup OrdComments \cup {<<>>} :
      html = c1 \o c2 =>
        /\ opts.remove_comments => output = KeptOf(c1) \o KeptOf(c2)
        /\ (~opts.remove_comments /\ c1 \notin OrdComments /\ c2 \notin OrdComments) =>
             output = html

\* C22: inside a quoted attribute value every character but the matching
\* quote is appended to the output as it is, and the scanner is still in
\* the attribute value of the same tag afterwards
C22_AttributeValueVerbatim ==
  [][(mstep = "attrs" /\ in_attr_value /\ mpos <= Len(html) /\ html[mpos] # quote_char) =>
       /\ output' = Append(output, html[mpos])
       /\ mpos' = mpos + 1
       /\ mstep' = "attrs"
       /\ in_attr_value'
       /\ quote_char' = quote_char]_vars

\* the element stack's top is an inline element
NearestInline == tag_stack # <<>> /\ is_inline(tag_stack[Len(tag_stack)])

\* a whitespace run of the text has been read and the character that ends
\* it, a text character or the '<' of a tag, is next
RunEnds ==
  /\ mstep = "scan"
  /\ opts.collapse_whitespace
  /\ pending_space
  /\ mpos <= Len(html)
  /\ ~is_whitespace(html[mpos])
  /\ ~AtComment
  /\ ~AtDoctype
  /\ ~in_preserve_whitespace_tag(tag_stack)

\* C23: outside pre and textarea the whitespace run becomes one space when
\* the nearest open element is inline or both neighbours of the run are
\* alphanumeric, and nothing otherwise; inside pre or textarea a text
\* character is copied as it is
C23_WhitespaceCollapse ==
  [][/\ RunEnds =>
          LET emit == NearestInline \/ (isalnum(LastOf(output)) /\ isalnum(html[mpos]))
              kept == IF emit THEN Append(output, " ") ELSE output
          IN /\ Len(output') > Len(kept)
             /\ SubSeq(output', 1, Len(kept) + 1) = Append(kept, html[mpos])
     /\ (/\ mstep = "scan" /\ mpos <= Len(html) /\ html[mpos] # "<"
         /\ ~AtComment /\ ~AtDoctype
         /\ in_preserve_whitespace_tag(tag_stack)) =>
          output' = Append(output, html[mpos])]_vars

(* -------------------------------- properties: the live-reload script tag *)
\* where the stated rule puts the script tag: before the first closing head
\* tag, at the end without one
WithScript(doc) ==
  IF \E k \in 1..Len(doc) : doc[k] = HeadClose
  THEN LET k == CHOOSE k \in 1..Len(doc) :
                  doc[k] = HeadClose /\ \A m \in 1..(k - 1) : doc[m] # HeadClose
       IN SubSeq(doc, 1, k - 1) \o <<dev_script>> \o SubSeq(doc, k, Len(doc))
  ELSE doc \o <<dev_script>>

\* C25: in dev mode the text render_page returns for a page that is not
\* standalone is the wrapped document with the script tag once, before the
\* first closing head tag or at the end, with or without a base template;
\* for a standalone page it is the page's text
C25_DevScriptInjected ==
  (rendered # NoText /\ is_dev_mode) =>
    IF ~ipage.needs_template THEN rendered = ipage.html_content
    ELSE LET wrapped == IF base_text = <<>> THEN ipage.html_content
                        ELSE Substitute(base_text, ipage.html_content)
         IN /\ rendered = WithScript(wrapped)
            /\ Cardinality({k \in 1..Len(rendered) : rendered[k] = dev_script}) = 1

(* --------------------------------------- properties: the error-page flag *)
\* C26: after a completed discover_content the flag has_error_page is true
\* exactly when the snapshot holds a page with url /404
C26_ErrorPageFlag ==
  gen > 0 => (has_error_page <=> <<"404">> \in DOMAIN pages)

(* ----------------------------- properties: the base template hot reload *)
\* C27: the assignment of base_template by reload_base_template never
\* overlaps a render_page that is reading, and every rendered page is
\* wrapped in the complete old or the complete new base template
C27_ReloadNeverRacesRender ==
  /\ ~(hpc = "render" /\ wpc = "reload")
  /\ (hpc = "respond" /\ hbody.kind = "page") =>
       /\ hbody.out # Garbage
       /\ hbody.out.base \in {"ok", Reloaded}

(* ------------------------------------ properties: stop() of the manager *)
\* C28: a stop() that has begun returns, whatever the server thread has
\* done so far
C28_StopTerminates == (mpc = "stop_ioc") ~> (mpc = "stopped")

(* ------------------------------------ properties: the session send queue *)
Queued(m) == \E k \in DOMAIN queue_ : queue_[k] = m

\* C29: at most one asynchronous write is outstanding, messages are written
\* in the order they were sent, a message leaves the queue only when its
\* write has completed, and every queued message is in the end written or
\* its write reported as failed
C29_SendQueue ==
  /\ [](Len(inflight) <= 1)
  /\ [](\A k \in DOMAIN written : \A l \in DOMAIN written :
          k < l => written[k] < written[l])
  /\ [][\A m \in Messages :
          (Queued(m) /\ ~Queued(m)') => \E k \in DOMAIN written' : written'[k] = m]_vars
  /\ \A m \in Messages :
       Queued(m) ~> ((\E k \in DOMAIN written : written[k] = m) \/ m \in write_failed)

(* --------------------------------------- properties: FrontMatter::parse *)
\* the document opens with --- and a later line starts with ---
HasFrontMatter(content) ==
  /\ StartsAt(content, 1, Dashes)
  /\ FindFrom(content, CloseMark, 4) # 0

\* C30: parse returns for every document; a document with an opening and a
\* closing delimiter is the opening ---, the front matter, the closing line
\* (with or without its newline) and the body, nothing lost; any other
\* document comes back whole as the body with an empty front matter
C30_SplitWithoutLoss ==
  parse_result # NotParsed =>
    /\ parse_result.outcome = "returned"
    /\ IF HasFrontMatter(raw_content)
       THEN \/ raw_content = Dashes \o parse_result.front \o CloseLine \o parse_result.body
            \/ raw_content = Dashes \o parse_result.front \o CloseMark \o parse_result.body
       ELSE /\ parse_result.front = <<>>
            /\ parse_result.body = raw_content

====
